---- MODULE Spec2Model ----
(***************************************************************************)
(* Session & Routing Engine of the PasaTanda agents backend.               *)
(*                                                                         *)
(*   SupabaseSessionService  durable table adk_sessions + in-memory        *)
(*                           fallbackSessions map, event-sourced state     *)
(*   WhatsappService         processedMessageCache (deduplication gate),   *)
(*                           handleMessage / handleTextMessage             *)
(*   VerificationService     OTP check that runs before the Router         *)
(*   AdkOrchestratorService  route                                         *)
(*                                                                         *)
(* Strings whose characters the code inspects (state keys, phone numbers,  *)
(* message bodies) are sequences of one-character strings.                 *)
(***************************************************************************)
EXTENDS Integers, Sequences, FiniteSets, TLC

\* ------------------------------------------------------------------------
\* Bounds of the model
\* ------------------------------------------------------------------------
MaxNow == 3           \* last value of the clock: every appended event takes
                      \* the next millisecond as its timestamp

\* ------------------------------------------------------------------------
\* Values
\* ------------------------------------------------------------------------
\* an optional value is a sequence of length 0 (absent) or 1 (present)
Absent == <<>>
Some(x) == <<x>>
NoCfg == Absent
NoRef == "undefined"  \* no object: undefined / a missing Map entry

Undefined == <<"undefined">>
V1 == <<"1">>
V2 == <<"2">>

KeyA == <<"a">>
KeyB == <<"b">>
KeyTempA == <<"t", "e", "m", "p", ":", "a">>
KeyTemp == <<"t", "e", "m", "p">>

TEMP_PREFIX == <<"t", "e", "m", "p", ":">>

\* (an application name is one token: the code never looks inside it)
AppName == <<"pasatanda">>
OtherApp == <<"otra">>
AppNames == {AppName, OtherApp}

User1 == <<"5", "9", "1">>
User2 == <<"7", "7">>
UserIds == {User1, User2}
UserIdSeq == <<User1, User2>>

EmptyState == [k \in {} |-> V1]

\* `${appName}:${userId}`
DefaultSessionId(appName, userId) == appName \o <<":">> \o userId

SessionIdSeq ==
    [i \in 1..Len(UserIdSeq) |-> DefaultSessionId(AppName, UserIdSeq[i])]

SessionIds == {SessionIdSeq[i] : i \in 1..Len(SessionIdSeq)}

\* key.startsWith(prefix)
StartsWith(key, prefix) ==
    /\ Len(key) >= Len(prefix)
    /\ SubSeq(key, 1, Len(prefix)) = prefix

\* toLowerCase / toUpperCase over the letters the model's texts use; an
\* accented letter is written with a trailing mark ("o'" is o acute)
LowerSeq ==
    <<"a", "b", "c", "d", "e", "f", "g", "h", "i", "j", "k", "l", "m",
      "n", "o", "p", "q", "r", "s", "t", "u", "v", "w", "x", "y", "z",
      "a'", "e'", "i'", "o'", "u'", "n~">>

UpperSeq ==
    <<"A", "B", "C", "D", "E", "F", "G", "H", "I", "J", "K", "L", "M",
      "N", "O", "P", "Q", "R", "S", "T", "U", "V", "W", "X", "Y", "Z",
      "A'", "E'", "I'", "O'", "U'", "N~">>

Range(seq) == {seq[i] : i \in 1..Len(seq)}

IndexOf(seq, c) == CHOOSE i \in 1..Len(seq) : seq[i] = c

toLowerCase(text) ==
    [i \in 1..Len(text) |->
        IF text[i] \in Range(UpperSeq)
        THEN LowerSeq[IndexOf(UpperSeq, text[i])] ELSE text[i]]

toUpperCase(text) ==
    [i \in 1..Len(text) |->
        IF text[i] \in Range(LowerSeq)
        THEN UpperSeq[IndexOf(LowerSeq, text[i])] ELSE text[i]]

Digits == {"0", "1", "2", "3", "4", "5", "6", "7", "8", "9"}

\* [A-Z]
AsciiUpper == Range(SubSeq(UpperSeq, 1, 26))

Whitespace == {" "}

\* String.prototype.trim
trim(text) ==
    LET solid == {i \in 1..Len(text) : text[i] \notin Whitespace}
    IN IF solid = {} THEN <<>>
       ELSE SubSeq(text,
                   CHOOSE i \in solid : \A j \in solid : i <= j,
                   CHOOSE i \in solid : \A j \in solid : i >= j)

\* pat occurs in text at position i
OccursAt(text, i, pat) ==
    /\ i + Len(pat) - 1 <= Len(text)
    /\ SubSeq(text, i, i + Len(pat) - 1) = pat

\* /pat/.test(text)
includes(text, pat) == \E i \in 1..(Len(text) + 1) : OccursAt(text, i, pat)

\* /a.*b/.test(text), for a text of one line
includesThen(text, a, b) ==
    \E i \in 1..(Len(text) + 1), j \in 1..(Len(text) + 1) :
        /\ OccursAt(text, i, a)
        /\ j >= i + Len(a)
        /\ OccursAt(text, j, b)

\* phone.replace(/\D/g, '')
digitsOnly(phone) == SelectSeq(phone, LAMBDA c : c \in Digits)

\* ------------------------------------------------------------------------
\* State Codec
\* ------------------------------------------------------------------------
stripTempState(state) ==
    [k \in {x \in DOMAIN state : ~StartsWith(x, TEMP_PREFIX)} |-> state[k]]

\* JSON.stringify drops the properties whose value is undefined
JsonState(state) ==
    [k \in {x \in DOMAIN state : state[x] # Undefined} |-> state[k]]

JsonEvent(e) == [e EXCEPT !.stateDelta = JsonState(e.stateDelta)]

JsonEvents(events) == [i \in 1..Len(events) |-> JsonEvent(events[i])]

rowToSession(row) ==
    [id |-> row.session_id,
     appName |-> row.app_name,
     userId |-> row.user_id,
     events |-> row.events,
     state |-> stripTempState(row.state),
     lastUpdateTime |-> row.last_update_time]

\* events.slice(-n): n = 0 is not reached (falsy guard in applyGetConfig)
SliceLast(events, n) ==
    IF n >= Len(events) THEN events
    ELSE SubSeq(events, Len(events) - n + 1, Len(events))

\* the index (0-based, -1 when none) at which the backwards scan stops:
\* the last event whose timestamp is before afterTimestamp
RECURSIVE ScanBack(_, _, _)
ScanBack(events, i, after) ==
    IF i < 1 THEN 0
    ELSE IF events[i].timestamp < after THEN i
    ELSE ScanBack(events, i - 1, after)

AfterTimestamp(events, after) ==
    LET i == ScanBack(events, Len(events), after)
    IN IF i >= 1 THEN SubSeq(events, i + 1, Len(events)) ELSE events

\* config is NoCfg or [numRecentEvents, afterTimestamp] (0 = not given)
applyGetConfigEvents(events, config) ==
    IF config = NoCfg THEN events
    ELSE LET c == config[1]
             e1 == IF c.numRecentEvents # 0
                   THEN SliceLast(events, c.numRecentEvents)
                   ELSE events
         IN IF c.afterTimestamp # 0
            THEN AfterTimestamp(e1, c.afterTimestamp)
            ELSE e1

applyGetConfig(session, config) ==
    [session EXCEPT !.events = applyGetConfigEvents(session.events, config)]

\* faulty variant: a key the state already has keeps its value
ApplyDeltaFirstWins(state, delta) ==
    LET keep == {k \in DOMAIN delta : ~StartsWith(k, TEMP_PREFIX)}
    IN [k \in (DOMAIN state) \cup keep |->
            IF k \in DOMAIN state THEN state[k] ELSE delta[k]]

\* BaseSessionService.appendEvent: apply the delta without temp: keys
ApplyDelta(state, delta) ==
    LET keep == {k \in DOMAIN delta : ~StartsWith(k, TEMP_PREFIX)}
    IN [k \in (DOMAIN state) \cup keep |->
            IF k \in keep THEN delta[k] ELSE state[k]]

\* ------------------------------------------------------------------------
\* Program state
\* ------------------------------------------------------------------------
VARIABLES
    enabled,            \* SupabaseService.isEnabled(): a pool was configured
    table,              \* adk_sessions: session_id -> optional row
    heap,               \* the Session objects in memory, by reference
    fallbackSessions,   \* SupabaseSessionService.fallbackSessions: id -> ref
    now,                \* Date.now() / NOW()
    held,               \* the Session reference the store's caller holds
    ret,                \* the last store call: the operation, whether it
                        \* raised, where a get or list read from
    folded,             \* history: per session id, the left fold of the
                        \* deltas appended since the session was created
                        \* and the events appended, in order
                        \* (Absent: not created, deleted, or created over
                        \* an older session of the same id)
    sendAgentText,      \* WhatsappService.sendAgentText (ADK_SEND_AGENT_TEXT)
    processedMessageCache,  \* WhatsappService.processedMessageCache:
                        \* message id -> optional Date.now() of its insert
    clockMs,            \* Date.now() as WhatsappService reads it
    seenAt,             \* history: per message id, when isDuplicateMessage
                        \* last answered false for it, and how often it did
    verificationCodes,  \* table verification_codes: phone -> optional row
    pc,                 \* where the handler of the inbound message stands
    turn,               \* the inbound message being handled (or handled
                        \* last) and what its handling did so far
    calls               \* webhook requests handled concurrently: per
                        \* request, where its handler stands and what it
                        \* holds

storeVars == <<enabled, table, heap, fallbackSessions, now, held, ret, folded>>

waVars ==
    <<sendAgentText, processedMessageCache, clockMs, seenAt,
      verificationCodes, pc, turn, calls>>

vars ==
    <<enabled, table, heap, fallbackSessions, now, held, ret, folded,
      sendAgentText, processedMessageCache, clockMs, seenAt,
      verificationCodes, pc, turn, calls>>

ObjSeq == <<"o1", "o2", "o3", "o4", "o5", "o6">>
ObjIds == {ObjSeq[i] : i \in 1..Len(ObjSeq)}

FreeObjs(h) == {o \in ObjIds : h[o] = Absent}

\* a new object (the model's `{ ... }` literal)
NewObj(h) == CHOOSE o \in FreeObjs(h) : TRUE

\* The names of the objects carry no meaning, only which references are
\* the same object does. After every step the live objects are renamed in
\* the order in which the roots (the Map entries, then the callers'
\* references) reach them, and the unreachable ones are dropped.
Roots(cache, refs) == [i \in 1..Len(SessionIdSeq) |-> cache[SessionIdSeq[i]]] \o refs

Rank(roots, ref) ==
    LET first == CHOOSE i \in 1..Len(roots) :
                    roots[i] = ref /\ \A j \in 1..(i - 1) : roots[j] # ref
    IN Cardinality({roots[j] : j \in 1..first} \ {NoRef})

Rename(roots, ref) ==
    IF ref = NoRef THEN NoRef ELSE ObjSeq[Rank(roots, ref)]

Collect(h, roots) ==
    [o \in ObjIds |->
        IF \E i \in 1..Len(roots) : roots[i] # NoRef /\ Rename(roots, roots[i]) = o
        THEN h[CHOOSE x \in ObjIds :
                 \E i \in 1..Len(roots) : roots[i] = x /\ Rename(roots, x) = o]
        ELSE Absent]

\* ------------------------------------------------------------------------
\* Session Store (SupabaseSessionService)
\*
\* Every operation takes the store st = [heap, cache, table], whether the
\* backend query of this call fails (fail), and returns the new store with
\* the result: raised, ref (the returned Session object) and what else the
\* claims read.
\* ------------------------------------------------------------------------
Store == [heap |-> heap, cache |-> fallbackSessions, table |-> table]

\* faulty variant: the catch block of createSession rethrows
CreateRethrows == FALSE

\* the try/catch around each backend query
CreateCatches == TRUE

\* faulty variant: the catch block of getSession rethrows
GetRethrows == FALSE

GetCatches == TRUE
ListCatches == TRUE

\* faulty variant: the catch block of deleteSession rethrows
DeleteRethrows == FALSE

DeleteCatches == TRUE
AppendCatches == TRUE

\* INSERT ... ON CONFLICT (session_id) DO UPDATE SET events, state,
\* last_update_time
Upsert(tbl, sid, appName, userId, events, state, t) ==
    IF tbl[sid] = Absent
    THEN [tbl EXCEPT ![sid] =
            Some([session_id |-> sid, app_name |-> appName,
                  user_id |-> userId, events |-> JsonEvents(events),
                  state |-> JsonState(state), last_update_time |-> t])]
    ELSE [tbl EXCEPT ![sid] =
            Some([tbl[sid][1] EXCEPT !.events = JsonEvents(events),
                                     !.state = JsonState(state),
                                     !.last_update_time = t])]

\* faulty variant: a session whose INSERT failed is returned but not kept
\* in the cache
createSessionUnmirrored(st, appName, userId, sessionId, state, fail, t) ==
    LET resolvedSessionId ==
            IF sessionId = Absent THEN DefaultSessionId(appName, userId)
            ELSE sessionId[1]
        initialState == stripTempState(state)
        session == [id |-> resolvedSessionId, appName |-> appName,
                    userId |-> userId, state |-> initialState,
                    events |-> <<>>, lastUpdateTime |-> t]
        failed == enabled /\ fail
        tbl == IF enabled /\ ~fail
               THEN Upsert(st.table, resolvedSessionId, appName, userId,
                           session.events, initialState, t)
               ELSE st.table
        o == NewObj(st.heap)
    IN [heap |-> [st.heap EXCEPT ![o] = Some(session)],
        cache |-> IF failed THEN st.cache
                  ELSE [st.cache EXCEPT ![resolvedSessionId] = o],
        table |-> tbl,
        raised |-> FALSE, ref |-> o, sid |-> resolvedSessionId]

createSession(st, appName, userId, sessionId, state, fail, t) ==
    LET resolvedSessionId ==
            IF sessionId = Absent THEN DefaultSessionId(appName, userId)
            ELSE sessionId[1]
        initialState == stripTempState(state)
        session == [id |-> resolvedSessionId, appName |-> appName,
                    userId |-> userId, state |-> initialState,
                    events |-> <<>>, lastUpdateTime |-> t]
        failed == enabled /\ fail
        raised == failed /\ ~CreateCatches
        tbl == IF enabled /\ ~fail
               THEN Upsert(st.table, resolvedSessionId, appName, userId,
                           session.events, initialState, t)
               ELSE st.table
        o == NewObj(st.heap)
    IN IF raised
       THEN [heap |-> st.heap, cache |-> st.cache, table |-> tbl,
             raised |-> TRUE, ref |-> NoRef, sid |-> resolvedSessionId]
       ELSE [heap |-> [st.heap EXCEPT ![o] = Some(session)],
             cache |-> [st.cache EXCEPT ![resolvedSessionId] = o],
             table |-> tbl,
             raised |-> FALSE, ref |-> o, sid |-> resolvedSessionId]

\* SELECT ... WHERE session_id = $1 AND app_name = $2 LIMIT 1
SelectSession(tbl, sessionId, appName) ==
    IF tbl[sessionId] # Absent /\ tbl[sessionId][1].app_name = appName
    THEN tbl[sessionId] ELSE Absent

\* faulty variant: getSession answers from the cache whenever it holds the
\* session and asks the backend only on a cache miss
getSessionCacheFirst(st, appName, sessionId, config, fail) ==
    LET rows == IF enabled /\ ~fail
                THEN SelectSession(st.table, sessionId, appName)
                ELSE Absent
        o == NewObj(st.heap)
        cached == st.cache[sessionId]
    IN IF cached # NoRef /\ config = NoCfg
       THEN [heap |-> st.heap, cache |-> st.cache, table |-> st.table,
             raised |-> FALSE, ref |-> cached, source |-> "cache"]
       ELSE IF cached # NoRef
       THEN [heap |-> [st.heap EXCEPT ![o] =
                          Some(applyGetConfig(st.heap[cached][1], config))],
             cache |-> st.cache, table |-> st.table,
             raised |-> FALSE, ref |-> o, source |-> "cache"]
       ELSE IF rows # Absent
       THEN [heap |-> [st.heap EXCEPT ![o] =
                    Some(applyGetConfig(rowToSession(rows[1]), config))],
             cache |-> [st.cache EXCEPT ![sessionId] = o],
             table |-> st.table,
             raised |-> FALSE, ref |-> o, source |-> "row"]
       ELSE [heap |-> st.heap, cache |-> st.cache, table |-> st.table,
             raised |-> FALSE, ref |-> NoRef, source |-> "none"]

getSession(st, appName, sessionId, config, fail) ==
    LET failed == enabled /\ fail
        raised == failed /\ ~GetCatches
        rows == IF enabled /\ ~fail
                THEN SelectSession(st.table, sessionId, appName)
                ELSE Absent
        o == NewObj(st.heap)
        cached == st.cache[sessionId]
    IN IF raised
       THEN [heap |-> st.heap, cache |-> st.cache, table |-> st.table,
             raised |-> TRUE, ref |-> NoRef, source |-> "none"]
       ELSE IF rows # Absent
       THEN LET filteredSession ==
                    applyGetConfig(rowToSession(rows[1]), config)
            IN [heap |-> [st.heap EXCEPT ![o] = Some(filteredSession)],
                cache |-> [st.cache EXCEPT ![sessionId] = o],
                table |-> st.table,
                raised |-> FALSE, ref |-> o, source |-> "row"]
       ELSE IF cached = NoRef
       THEN [heap |-> st.heap, cache |-> st.cache, table |-> st.table,
             raised |-> FALSE, ref |-> NoRef, source |-> "none"]
       ELSE IF config = NoCfg
       THEN [heap |-> st.heap, cache |-> st.cache, table |-> st.table,
             raised |-> FALSE, ref |-> cached, source |-> "cache"]
       ELSE [heap |-> [st.heap EXCEPT ![o] =
                          Some(applyGetConfig(st.heap[cached][1], config))],
             cache |-> st.cache, table |-> st.table,
             raised |-> FALSE, ref |-> o, source |-> "cache"]

\* the summaries (no state, no events) of the user's sessions
Summary(id, appName, userId, lastUpdateTime) ==
    [id |-> id, appName |-> appName, userId |-> userId,
     state |-> EmptyState, events |-> <<>>,
     lastUpdateTime |-> lastUpdateTime]

listSessions(st, appName, userId, fail) ==
    LET failed == enabled /\ fail
        raised == failed /\ ~ListCatches
        fromRows ==
            IF enabled /\ ~fail
            THEN {Summary(st.table[sid][1].session_id,
                          st.table[sid][1].app_name,
                          st.table[sid][1].user_id,
                          st.table[sid][1].last_update_time) :
                    sid \in {x \in SessionIds :
                                /\ st.table[x] # Absent
                                /\ st.table[x][1].app_name = appName
                                /\ st.table[x][1].user_id = userId}}
            ELSE {}
        fromCache ==
            {Summary(sid, st.heap[st.cache[sid]][1].appName,
                     st.heap[st.cache[sid]][1].userId,
                     st.heap[st.cache[sid]][1].lastUpdateTime) :
                sid \in {x \in SessionIds :
                            /\ st.cache[x] # NoRef
                            /\ st.heap[st.cache[x]][1].appName = appName
                            /\ st.heap[st.cache[x]][1].userId = userId}}
    IN [raised |-> raised,
        sessions |-> IF raised THEN {}
                     ELSE IF fromRows # {} THEN fromRows ELSE fromCache,
        source |-> IF fromRows # {} THEN "row" ELSE "cache"]

\* faulty variant: deleteSession empties the whole in-memory map
deleteSessionClearing(st, sessionId, fail) ==
    LET tbl == IF enabled /\ ~fail
               THEN [st.table EXCEPT ![sessionId] = Absent]
               ELSE st.table
    IN [heap |-> st.heap,
        cache |-> [sid \in SessionIds |-> NoRef],
        table |-> tbl, raised |-> FALSE]

deleteSession(st, sessionId, fail) ==
    LET failed == enabled /\ fail
        raised == failed /\ ~DeleteCatches
        tbl == IF enabled /\ ~fail
               THEN [st.table EXCEPT ![sessionId] = Absent]
               ELSE st.table
    IN [heap |-> st.heap,
        cache |-> IF raised THEN st.cache
                  ELSE [st.cache EXCEPT ![sessionId] = NoRef],
        table |-> tbl, raised |-> raised]

\* appendEvent, step 1: super.appendEvent applies the delta and pushes the
\* event; then lastUpdateTime and the defensive strip. All on the object.
AppendInPlace(session, event) ==
    [session EXCEPT
        !.state = stripTempState(ApplyDelta(session.state, event.stateDelta)),
        !.events = Append(session.events, event),
        !.lastUpdateTime = event.timestamp]

\* faulty variant: the UPDATE adds the last event to the events of the row
\* and leaves the rest of them as they are
UpdateRowAppending(tbl, session, t) ==
    IF tbl[session.id] = Absent THEN tbl
    ELSE [tbl EXCEPT ![session.id] =
            Some([tbl[session.id][1] EXCEPT
                    !.events = @ \o JsonEvents(<<session.events[
                                                   Len(session.events)]>>),
                    !.state = JsonState(session.state),
                    !.last_update_time = t])]

\* UPDATE adk_sessions SET events, state, last_update_time WHERE session_id
UpdateRow(tbl, session, t) ==
    IF tbl[session.id] = Absent THEN tbl
    ELSE [tbl EXCEPT ![session.id] =
            Some([tbl[session.id][1] EXCEPT
                    !.events = JsonEvents(session.events),
                    !.state = JsonState(session.state),
                    !.last_update_time = t])]

appendEvent(st, ref, event, fail, t) ==
    LET session == AppendInPlace(st.heap[ref][1], event)
        failed == enabled /\ fail
        raised == failed /\ ~AppendCatches
        tbl == IF enabled /\ ~fail THEN UpdateRow(st.table, session, t)
               ELSE st.table
    IN [heap |-> [st.heap EXCEPT ![ref] = Some(session)],
        cache |-> IF raised THEN st.cache
                  ELSE [st.cache EXCEPT ![session.id] = ref],
        table |-> tbl, raised |-> raised, event |-> event]

\* ------------------------------------------------------------------------
\* The Session Store under an arbitrary caller
\* ------------------------------------------------------------------------
NoSession ==
    [id |-> <<>>, appName |-> <<>>, userId |-> <<>>, state |-> EmptyState,
     events |-> <<>>, lastUpdateTime |-> 0]

NoEvent == [author |-> "", timestamp |-> 0, stateDelta |-> EmptyState]

\* folded[sid] is Absent for a session that was not created (or deleted)
NoFold == Absent

\* "temp" lacks the colon of the ephemeral prefix: an ordinary key
InitialStates ==
    {EmptyState,
     (KeyB :> V1) @@ (KeyTemp :> V1) @@ (KeyTempA :> V2)}

Deltas ==
    {(KeyA :> V2),
     (KeyA :> Undefined) @@ (KeyTempA :> V1)}

\* createSession with the session id omitted, or given explicitly by
\* another application
CreateArgs ==
    {[appName |-> AppName, userId |-> u, sessionId |-> Absent] :
        u \in UserIds}
    \cup {[appName |-> OtherApp, userId |-> u,
           sessionId |-> Some(DefaultSessionId(AppName, u))] : u \in UserIds}

Configs ==
    {NoCfg,
     Some([numRecentEvents |-> 1, afterTimestamp |-> 0]),
     Some([numRecentEvents |-> 0, afterTimestamp |-> 3])}

Fails == IF enabled THEN BOOLEAN ELSE {FALSE}

Deref(h, ref) == IF ref = NoRef THEN NoSession ELSE h[ref][1]

\* what the state keeps of the last call: which operation it was and
\* whether it raised. The Session it returned is the object `held` refers
\* to (NoRef when it returned undefined).
Ret(op, raised, source) == [op |-> op, raised |-> raised, source |-> source]

StoreInit ==
    /\ enabled \in BOOLEAN
    /\ table = [sid \in SessionIds |-> Absent]
    /\ heap = [o \in ObjIds |-> Absent]
    /\ fallbackSessions = [sid \in SessionIds |-> NoRef]
    /\ now = 1
    /\ held = NoRef
    /\ ret = Ret("init", FALSE, "none")
    /\ folded = [sid \in SessionIds |-> NoFold]

\* the caller keeps the returned Session (or drops its reference on a raise)
Commit(r, ref) ==
    \E roots \in {Roots(r.cache, <<ref>>)} :
        /\ table' = r.table
        /\ fallbackSessions' =
                [sid \in SessionIds |-> Rename(roots, r.cache[sid])]
        /\ held' = Rename(roots, ref)
        /\ heap' = Collect(r.heap, roots)

CreateSession(appName, userId, sessionId, state, fail) ==
    \E r \in {createSession(Store, appName, userId, sessionId, state, fail, now)} :
       /\ Commit(r, r.ref)
       /\ ret' = Ret("create", r.raised, "none")
       /\ folded' = IF r.raised THEN folded
                  ELSE IF table[r.sid] = Absent
                          /\ fallbackSessions[r.sid] = NoRef
                  THEN [folded EXCEPT ![r.sid] =
                          Some([state |-> stripTempState(state), n |-> 0,
                                events |-> <<>>])]
                  ELSE [folded EXCEPT ![r.sid] = NoFold]
       /\ UNCHANGED <<enabled, now>>

GetSession(appName, sessionId, config, fail) ==
    \E r \in {getSession(Store, appName, sessionId, config, fail)} :
       /\ Commit(r, r.ref)
       /\ ret' = Ret("get", r.raised, r.source)
       /\ UNCHANGED <<enabled, now, folded>>

ListSessions(appName, userId, fail) ==
    \E r \in {listSessions(Store, appName, userId, fail)} :
       /\ ret' = Ret("list", r.raised, r.source)
       /\ UNCHANGED <<enabled, table, heap, fallbackSessions, now, held,
                      folded>>

DeleteSession(sessionId, fail) ==
    \E r \in {deleteSession(Store, sessionId, fail)} :
       /\ Commit(r, held)
       /\ ret' = Ret("delete", r.raised, "none")
       /\ folded' = [folded EXCEPT ![sessionId] = NoFold]
       /\ UNCHANGED <<enabled, now>>

AppendEvent(author, delta, fail) ==
    LET event == [author |-> author, timestamp |-> now + 1,
                  stateDelta |-> delta]
        sid == heap[held][1].id
    IN /\ held # NoRef
       /\ now < MaxNow
       /\ now' = now + 1
       /\ \E r \in {appendEvent(Store, held, event, fail, now + 1)} :
            /\ Commit(r, held)
            /\ ret' = Ret("appendEvent", r.raised, "none")
       /\ folded' = IF folded[sid] # Absent
                  THEN [folded EXCEPT ![sid] =
                          Some([state |-> ApplyDelta(@[1].state, delta),
                                n |-> @[1].n + 1,
                                events |-> Append(@[1].events, event)])]
                  ELSE folded
       /\ UNCHANGED enabled

\* a process restart: every in-memory structure is rebuilt empty
Restart ==
    /\ \E sid \in SessionIds : fallbackSessions[sid] # NoRef
    /\ heap' = [o \in ObjIds |-> Absent]
    /\ fallbackSessions' = [sid \in SessionIds |-> NoRef]
    /\ held' = NoRef
    /\ folded' = [sid \in SessionIds |-> NoFold]
    /\ ret' = Ret("restart", FALSE, "none")
    /\ UNCHANGED <<enabled, table, now>>

\* legacy / corrupt data: an ephemeral key written directly into the row
InjectRow(sid) ==
    /\ table[sid] # Absent
    /\ KeyTempA \notin DOMAIN table[sid][1].state
    /\ table' = [table EXCEPT ![sid] =
                    Some([table[sid][1] EXCEPT
                            !.state = (KeyTempA :> V1) @@ @])]
    /\ ret' = Ret("inject", FALSE, "none")
    /\ UNCHANGED <<enabled, heap, fallbackSessions, now, held, folded>>

\* ... or directly into the cached Session object
InjectCache(sid) ==
    /\ fallbackSessions[sid] # NoRef
    /\ KeyTempA \notin DOMAIN heap[fallbackSessions[sid]][1].state
    /\ heap' = [heap EXCEPT ![fallbackSessions[sid]] =
                    Some([heap[fallbackSessions[sid]][1] EXCEPT
                            !.state = (KeyTempA :> V1) @@ @])]
    /\ ret' = Ret("inject", FALSE, "none")
    /\ UNCHANGED <<enabled, table, fallbackSessions, now, held, folded>>

\* getSession by the owning application with every config, and by another
\* application
GetArgs ==
    {[appName |-> AppName, config |-> c] : c \in Configs}
    \cup {[appName |-> OtherApp, config |-> NoCfg]}

\* the callers of this specification use the session of one user
StoreUsers == {User1}
StoreSessionIds == {DefaultSessionId(AppName, u) : u \in StoreUsers}

StoreNext ==
    \/ \E c \in {x \in CreateArgs : x.userId \in StoreUsers},
          st \in InitialStates, f \in Fails :
            CreateSession(c.appName, c.userId, c.sessionId, st, f)
            /\ UNCHANGED waVars
    \/ \E g \in GetArgs, sid \in StoreSessionIds, f \in Fails :
            GetSession(g.appName, sid, g.config, f) /\ UNCHANGED waVars
    \/ \E a \in AppNames, u \in StoreUsers, f \in Fails :
            ListSessions(a, u, f) /\ UNCHANGED waVars
    \/ \E sid \in StoreSessionIds, f \in Fails :
            DeleteSession(sid, f) /\ UNCHANGED waVars
    \/ \E d \in Deltas, f \in Fails :
            AppendEvent("agent", d, f) /\ UNCHANGED waVars
    \/ Restart /\ UNCHANGED waVars

\* the same, over storage that may hold legacy or corrupt data
LegacyNext ==
    \/ StoreNext
    \/ \E sid \in StoreSessionIds : InjectRow(sid) /\ UNCHANGED waVars
    \/ \E sid \in StoreSessionIds : InjectCache(sid) /\ UNCHANGED waVars

\* ------------------------------------------------------------------------
\* Deduplication gate (WhatsappService.processedMessageCache)
\* ------------------------------------------------------------------------
processedMessageTtlMs == 10 * 60 * 1000

MessageIds == {"wamid.1", "wamid.2"}

\* message.id is missing
NoMessageId == ""

\* faulty variant: no entry of the gate ever expires
pruneNothing(cache, reference) == cache

pruneProcessedMessages(cache, reference) ==
    [id \in DOMAIN cache |->
        IF cache[id] # Absent
           /\ reference - cache[id][1] > processedMessageTtlMs
        THEN Absent ELSE cache[id]]

\* faulty variant: a duplicate lookup refreshes the time of the entry
isDuplicateMessageRefreshing(cache, messageId, t) ==
    IF messageId = NoMessageId
    THEN [dup |-> FALSE, cache |-> cache]
    ELSE LET pruned == pruneProcessedMessages(cache, t)
         IN [dup |-> pruned[messageId] # Absent,
             cache |-> [pruned EXCEPT ![messageId] = Some(t)]]

isDuplicateMessage(cache, messageId, t) ==
    IF messageId = NoMessageId
    THEN [dup |-> FALSE, cache |-> cache]
    ELSE LET pruned == pruneProcessedMessages(cache, t)
         IN IF pruned[messageId] # Absent
            THEN [dup |-> TRUE, cache |-> pruned]
            ELSE [dup |-> FALSE,
                  cache |-> [pruned EXCEPT ![messageId] = Some(t)]]

\* ------------------------------------------------------------------------
\* OTP verification (VerificationService), which handleTextMessage runs
\* before the Router.  q counts the backend queries the handler has issued;
\* the query number failAt fails (0: none does).
\* ------------------------------------------------------------------------
IsCodeChar(c) == c \in AsciiUpper \cup Digits

\* the length of the run of [A-Z0-9] that starts at position i
RunLength(text, i) ==
    LET stops == {j \in i..(Len(text) + 1) :
                    j = Len(text) + 1 \/ ~IsCodeChar(text[j])}
    IN (CHOOSE j \in stops : \A k \in stops : j <= k) - i

\* text.match(/[A-Z0-9]{4,6}/g), from position i on
RECURSIVE matchCodes(_, _)
matchCodes(text, i) ==
    IF i > Len(text) THEN <<>>
    ELSE LET n == RunLength(text, i)
             m == IF n > 6 THEN 6 ELSE n
         IN IF n >= 4
            THEN <<SubSeq(text, i, i + m - 1)>> \o matchCodes(text, i + m)
            ELSE matchCodes(text, i + 1)

extractCodes(text) ==
    LET matches == matchCodes(toUpperCase(text), 1)
    IN SelectSeq([i \in 1..Len(matches) |-> trim(matches[i])],
                 LAMBDA m : m # <<>>)

RowOf(rows, phone) == IF phone \in DOMAIN rows THEN rows[phone] ELSE Absent

Verified(raised, ok, rows, q) ==
    [raised |-> raised, ok |-> ok, rows |-> rows, q |-> q]

verifyCode(phone, code, rows, q, failAt) ==
    LET normalizedPhone == digitsOnly(phone)
        normalizedCode == toUpperCase(trim(code))
        row == RowOf(rows, normalizedPhone)
    IN IF ~enabled THEN Verified(TRUE, FALSE, rows, q)
       ELSE IF normalizedPhone = <<>> THEN Verified(TRUE, FALSE, rows, q)
       ELSE IF normalizedCode = <<>> THEN Verified(FALSE, FALSE, rows, q)
       ELSE IF failAt = q + 1 THEN Verified(TRUE, FALSE, rows, q + 1)
       ELSE IF row = Absent THEN Verified(FALSE, FALSE, rows, q + 1)
       ELSE IF row[1].expired
       THEN IF failAt = q + 2 THEN Verified(TRUE, FALSE, rows, q + 2)
            ELSE Verified(FALSE, FALSE,
                          [rows EXCEPT ![normalizedPhone] = Absent], q + 2)
       ELSE IF toUpperCase(trim(row[1].code)) # normalizedCode
       THEN Verified(FALSE, FALSE, rows, q + 1)
       ELSE IF failAt = q + 2 THEN Verified(TRUE, FALSE, rows, q + 2)
       ELSE Verified(FALSE, TRUE,
                     [rows EXCEPT ![normalizedPhone] =
                        Some([code |-> row[1].code, expired |-> TRUE,
                              verified |-> TRUE])],
                     q + 2)

RECURSIVE verifyCandidates(_, _, _, _, _)
verifyCandidates(phone, candidates, rows, q, failAt) ==
    IF candidates = <<>> THEN Verified(FALSE, FALSE, rows, q)
    ELSE LET v == verifyCode(phone, Head(candidates), rows, q, failAt)
         IN IF v.raised \/ v.ok THEN v
            ELSE verifyCandidates(phone, Tail(candidates), v.rows, v.q,
                                  failAt)

verifyFromMessage(phone, text, rows, failAt) ==
    IF text = <<>> THEN Verified(FALSE, FALSE, rows, 0)
    ELSE verifyCandidates(phone, extractCodes(text), rows, 0, failAt)

markPhoneVerified(phone, q, failAt) ==
    IF ~enabled \/ digitsOnly(phone) = <<>> THEN [raised |-> TRUE, q |-> q]
    ELSE [raised |-> failAt = q + 1, q |-> q + 1]

\* ------------------------------------------------------------------------
\* Intent classifier (AdkOrchestratorService.detectIntent)
\* ------------------------------------------------------------------------
\* /^tanda:(configure|status|add_participant|start):\d+/
TandaCommand(lowerMessage, kind) ==
    LET prefix == <<"t", "a", "n", "d", "a", ":">> \o kind \o <<":">>
    IN /\ StartsWith(lowerMessage, prefix)
       /\ Len(lowerMessage) > Len(prefix)
       /\ lowerMessage[Len(prefix) + 1] \in Digits

\* faulty variant: the create rule is tried before the verification rule
detectIntentCreateFirst(userMessage, agentResponse) ==
    LET lowerMessage == toLowerCase(userMessage)
        lowerResponse == toLowerCase(agentResponse)
        msg(p) == includes(lowerMessage, p)
        msgThen(a, b) == includesThen(lowerMessage, a, b)
        res(p) == includes(lowerResponse, p)
        resThen(a, b) == includesThen(lowerResponse, a, b)
    IN IF \/ StartsWith(lowerMessage, <<"i", "n", "v", "i", "t", "e", "_", "a", "c", "c", "e", "p", "t", ":">>)
          \/ StartsWith(lowerMessage, <<"i", "n", "v", "i", "t", "e", "_", "d", "e", "c", "l", "i", "n", "e", ":">>)
       THEN "CREATE_GROUP"
       ELSE IF TandaCommand(lowerMessage, <<"c", "o", "n", "f", "i", "g", "u", "r", "e">>)
       THEN "CONFIGURE_TANDA"
       ELSE IF TandaCommand(lowerMessage, <<"s", "t", "a", "t", "u", "s">>)
       THEN "CHECK_STATUS"
       ELSE IF TandaCommand(lowerMessage, <<"a", "d", "d", "_", "p", "a", "r", "t", "i", "c", "i", "p", "a", "n", "t">>)
       THEN "ADD_PARTICIPANT"
       ELSE IF TandaCommand(lowerMessage, <<"s", "t", "a", "r", "t">>)
       THEN "START_TANDA"
       ELSE IF \/ msg(<<"c", "r", "e", "a", "r">>) \/ msg(<<"n", "u", "e", "v", "a", " ", "t", "a", "n", "d", "a">>)
               \/ msg(<<"i", "n", "i", "c", "i", "a", "r", " ", "g", "r", "u", "p", "o">>) \/ msg(<<"a", "r", "m", "a", "r">>)
       THEN "CREATE_GROUP"
       ELSE IF \/ msg(<<"~", "*">>) \/ msg(<<"o", "t", "p">>)
               \/ msg(<<"c", "o", "d", "i", "g", "o">>) \/ msg(<<"c", "o'", "d", "i", "g", "o">>)
               \/ msg(<<"p", "i", "n">>)
       THEN "VERIFY_PHONE"
       ELSE IF \/ msg(<<"a", "g", "r", "e", "g", "a", "r">>) \/ msg(<<"i", "n", "v", "i", "t", "a", "r">>)
               \/ msg(<<"a", "n~", "a", "d", "i", "r">>) \/ msg(<<"i", "n", "c", "l", "u", "i", "r">>)
       THEN "ADD_PARTICIPANT"
       ELSE IF \/ msg(<<"c", "o", "n", "f", "i", "g", "u", "r", "a", "r">>) \/ msg(<<"c", "a", "m", "b", "i", "a", "r">>)
               \/ msg(<<"m", "o", "d", "i", "f", "i", "c", "a", "r">>)
       THEN "CONFIGURE_TANDA"
       ELSE IF \/ msg(<<"e", "s", "t", "a", "d", "o">>) \/ msg(<<"c", "o'", "m", "o", " ", "v", "a">>)
               \/ msg(<<"i", "n", "f", "o">>) \/ msg(<<"v", "e", "r", " ", "t", "a", "n", "d", "a">>)
               \/ msg(<<"m", "i", " ", "t", "u", "r", "n", "o">>)
       THEN "CHECK_STATUS"
       ELSE IF \/ msg(<<"p", "a", "g", "a", "r">>) \/ msg(<<"c", "u", "o", "t", "a">>)
               \/ msgThen(<<"l", "i", "n", "k">>, <<"p", "a", "g", "o">>) \/ msg(<<"q", "r">>)
       THEN "PAY_QUOTA"
       ELSE IF \/ msg(<<"c", "o", "m", "p", "r", "o", "b", "a", "n", "t", "e">>) \/ msg(<<"v", "o", "u", "c", "h", "e", "r">>)
               \/ msg(<<"r", "e", "c", "i", "b", "o">>) \/ msg(<<"p", "a", "g", "u", "e'">>)
       THEN "UPLOAD_PROOF"
       ELSE IF \/ msg(<<"a", "y", "u", "d", "a">>) \/ msg(<<"c", "o'", "m", "o", " ", "f", "u", "n", "c", "i", "o", "n", "a">>)
               \/ msg(<<"q", "u", "e'", " ", "p", "u", "e", "d", "o">>)
       THEN "GENERAL_HELP"
       ELSE IF \/ msgThen(<<"i", "n", "i", "c", "i", "a", "r">>, <<"t", "a", "n", "d", "a">>) \/ msg(<<"d", "e", "s", "p", "l", "e", "g", "a", "r">>)
               \/ msg(<<"a", "c", "t", "i", "v", "a", "r">>)
       THEN "START_TANDA"
       ELSE IF \/ resThen(<<"g", "r", "u", "p", "o">>, <<"c", "r", "e", "a", "d", "o">>)
               \/ resThen(<<"t", "a", "n", "d", "a">>, <<"c", "r", "e", "a", "d", "a">>)
       THEN "CREATE_GROUP"
       ELSE IF \E subject \in {<<"t", "e", "l", "e", "f", "o", "n", "o">>, <<"t", "e", "l", "e'", "f", "o", "n", "o">>,
                               <<"c", "o", "d", "i", "g", "o">>, <<"c", "o'", "d", "i", "g", "o">>},
                  done \in {<<"v", "e", "r", "i", "f", "i", "c", "a", "d", "o">>, <<"v", "a", "l", "i", "d", "a", "d", "o">>} :
                    resThen(subject, done)
       THEN "VERIFY_PHONE"
       ELSE IF \/ resThen(<<"l", "i", "n", "k">>, <<"p", "a", "g", "o">>)
               \/ resThen(<<"q", "r">>, <<"g", "e", "n", "e", "r", "a", "d", "o">>)
               \/ res(<<"p", "a", "y", "m", "e", "n", "t">>)
       THEN "PAY_QUOTA"
       ELSE IF res(<<"v", "e", "r", "i", "f", "i", "c", "a", "d", "o">>) \/ res(<<"c", "o", "m", "p", "r", "o", "b", "a", "n", "t", "e">>)
       THEN "UPLOAD_PROOF"
       ELSE "UNKNOWN"

\* faulty variant: the response-text rules are tried before the user-text
\* rules
detectIntentResponseFirst(userMessage, agentResponse) ==
    LET lowerMessage == toLowerCase(userMessage)
        lowerResponse == toLowerCase(agentResponse)
        msg(p) == includes(lowerMessage, p)
        msgThen(a, b) == includesThen(lowerMessage, a, b)
        res(p) == includes(lowerResponse, p)
        resThen(a, b) == includesThen(lowerResponse, a, b)
    IN IF \/ StartsWith(lowerMessage, <<"i", "n", "v", "i", "t", "e", "_", "a", "c", "c", "e", "p", "t", ":">>)
          \/ StartsWith(lowerMessage, <<"i", "n", "v", "i", "t", "e", "_", "d", "e", "c", "l", "i", "n", "e", ":">>)
       THEN "CREATE_GROUP"
       ELSE IF TandaCommand(lowerMessage, <<"c", "o", "n", "f", "i", "g", "u", "r", "e">>)
       THEN "CONFIGURE_TANDA"
       ELSE IF TandaCommand(lowerMessage, <<"s", "t", "a", "t", "u", "s">>)
       THEN "CHECK_STATUS"
       ELSE IF TandaCommand(lowerMessage, <<"a", "d", "d", "_", "p", "a", "r", "t", "i", "c", "i", "p", "a", "n", "t">>)
       THEN "ADD_PARTICIPANT"
       ELSE IF TandaCommand(lowerMessage, <<"s", "t", "a", "r", "t">>)
       THEN "START_TANDA"
       ELSE IF \/ resThen(<<"g", "r", "u", "p", "o">>, <<"c", "r", "e", "a", "d", "o">>)
               \/ resThen(<<"t", "a", "n", "d", "a">>, <<"c", "r", "e", "a", "d", "a">>)
       THEN "CREATE_GROUP"
       ELSE IF \E subject \in {<<"t", "e", "l", "e", "f", "o", "n", "o">>, <<"t", "e", "l", "e'", "f", "o", "n", "o">>,
                               <<"c", "o", "d", "i", "g", "o">>, <<"c", "o'", "d", "i", "g", "o">>},
                  done \in {<<"v", "e", "r", "i", "f", "i", "c", "a", "d", "o">>, <<"v", "a", "l", "i", "d", "a", "d", "o">>} :
                    resThen(subject, done)
       THEN "VERIFY_PHONE"
       ELSE IF \/ resThen(<<"l", "i", "n", "k">>, <<"p", "a", "g", "o">>)
               \/ resThen(<<"q", "r">>, <<"g", "e", "n", "e", "r", "a", "d", "o">>)
               \/ res(<<"p", "a", "y", "m", "e", "n", "t">>)
       THEN "PAY_QUOTA"
       ELSE IF res(<<"v", "e", "r", "i", "f", "i", "c", "a", "d", "o">>) \/ res(<<"c", "o", "m", "p", "r", "o", "b", "a", "n", "t", "e">>)
       THEN "UPLOAD_PROOF"
       ELSE IF \/ msg(<<"~", "*">>) \/ msg(<<"o", "t", "p">>)
               \/ msg(<<"c", "o", "d", "i", "g", "o">>) \/ msg(<<"c", "o'", "d", "i", "g", "o">>)
               \/ msg(<<"p", "i", "n">>)
       THEN "VERIFY_PHONE"
       ELSE IF \/ msg(<<"c", "r", "e", "a", "r">>) \/ msg(<<"n", "u", "e", "v", "a", " ", "t", "a", "n", "d", "a">>)
               \/ msg(<<"i", "n", "i", "c", "i", "a", "r", " ", "g", "r", "u", "p", "o">>) \/ msg(<<"a", "r", "m", "a", "r">>)
       THEN "CREATE_GROUP"
       ELSE IF \/ msg(<<"a", "g", "r", "e", "g", "a", "r">>) \/ msg(<<"i", "n", "v", "i", "t", "a", "r">>)
               \/ msg(<<"a", "n~", "a", "d", "i", "r">>) \/ msg(<<"i", "n", "c", "l", "u", "i", "r">>)
       THEN "ADD_PARTICIPANT"
       ELSE IF \/ msg(<<"c", "o", "n", "f", "i", "g", "u", "r", "a", "r">>) \/ msg(<<"c", "a", "m", "b", "i", "a", "r">>)
               \/ msg(<<"m", "o", "d", "i", "f", "i", "c", "a", "r">>)
       THEN "CONFIGURE_TANDA"
       ELSE IF \/ msg(<<"e", "s", "t", "a", "d", "o">>) \/ msg(<<"c", "o'", "m", "o", " ", "v", "a">>)
               \/ msg(<<"i", "n", "f", "o">>) \/ msg(<<"v", "e", "r", " ", "t", "a", "n", "d", "a">>)
               \/ msg(<<"m", "i", " ", "t", "u", "r", "n", "o">>)
       THEN "CHECK_STATUS"
       ELSE IF \/ msg(<<"p", "a", "g", "a", "r">>) \/ msg(<<"c", "u", "o", "t", "a">>)
               \/ msgThen(<<"l", "i", "n", "k">>, <<"p", "a", "g", "o">>) \/ msg(<<"q", "r">>)
       THEN "PAY_QUOTA"
       ELSE IF \/ msg(<<"c", "o", "m", "p", "r", "o", "b", "a", "n", "t", "e">>) \/ msg(<<"v", "o", "u", "c", "h", "e", "r">>)
               \/ msg(<<"r", "e", "c", "i", "b", "o">>) \/ msg(<<"p", "a", "g", "u", "e'">>)
       THEN "UPLOAD_PROOF"
       ELSE IF \/ msg(<<"a", "y", "u", "d", "a">>) \/ msg(<<"c", "o'", "m", "o", " ", "f", "u", "n", "c", "i", "o", "n", "a">>)
               \/ msg(<<"q", "u", "e'", " ", "p", "u", "e", "d", "o">>)
       THEN "GENERAL_HELP"
       ELSE IF \/ msgThen(<<"i", "n", "i", "c", "i", "a", "r">>, <<"t", "a", "n", "d", "a">>) \/ msg(<<"d", "e", "s", "p", "l", "e", "g", "a", "r">>)
               \/ msg(<<"a", "c", "t", "i", "v", "a", "r">>)
       THEN "START_TANDA"
       ELSE "UNKNOWN"

detectIntent(userMessage, agentResponse) ==
    LET lowerMessage == toLowerCase(userMessage)
        lowerResponse == toLowerCase(agentResponse)
        msg(p) == includes(lowerMessage, p)
        msgThen(a, b) == includesThen(lowerMessage, a, b)
        res(p) == includes(lowerResponse, p)
        resThen(a, b) == includesThen(lowerResponse, a, b)
    IN IF \/ StartsWith(lowerMessage, <<"i", "n", "v", "i", "t", "e", "_", "a", "c", "c", "e", "p", "t", ":">>)
          \/ StartsWith(lowerMessage, <<"i", "n", "v", "i", "t", "e", "_", "d", "e", "c", "l", "i", "n", "e", ":">>)
       THEN "CREATE_GROUP"
       ELSE IF TandaCommand(lowerMessage, <<"c", "o", "n", "f", "i", "g", "u", "r", "e">>)
       THEN "CONFIGURE_TANDA"
       ELSE IF TandaCommand(lowerMessage, <<"s", "t", "a", "t", "u", "s">>)
       THEN "CHECK_STATUS"
       ELSE IF TandaCommand(lowerMessage, <<"a", "d", "d", "_", "p", "a", "r", "t", "i", "c", "i", "p", "a", "n", "t">>)
       THEN "ADD_PARTICIPANT"
       ELSE IF TandaCommand(lowerMessage, <<"s", "t", "a", "r", "t">>)
       THEN "START_TANDA"
       ELSE IF \/ msg(<<"~", "*">>) \/ msg(<<"o", "t", "p">>)
               \/ msg(<<"c", "o", "d", "i", "g", "o">>) \/ msg(<<"c", "o'", "d", "i", "g", "o">>)
               \/ msg(<<"p", "i", "n">>)
       THEN "VERIFY_PHONE"
       ELSE IF \/ msg(<<"c", "r", "e", "a", "r">>) \/ msg(<<"n", "u", "e", "v", "a", " ", "t", "a", "n", "d", "a">>)
               \/ msg(<<"i", "n", "i", "c", "i", "a", "r", " ", "g", "r", "u", "p", "o">>) \/ msg(<<"a", "r", "m", "a", "r">>)
       THEN "CREATE_GROUP"
       ELSE IF \/ msg(<<"a", "g", "r", "e", "g", "a", "r">>) \/ msg(<<"i", "n", "v", "i", "t", "a", "r">>)
               \/ msg(<<"a", "n~", "a", "d", "i", "r">>) \/ msg(<<"i", "n", "c", "l", "u", "i", "r">>)
       THEN "ADD_PARTICIPANT"
       ELSE IF \/ msg(<<"c", "o", "n", "f", "i", "g", "u", "r", "a", "r">>) \/ msg(<<"c", "a", "m", "b", "i", "a", "r">>)
               \/ msg(<<"m", "o", "d", "i", "f", "i", "c", "a", "r">>)
       THEN "CONFIGURE_TANDA"
       ELSE IF \/ msg(<<"e", "s", "t", "a", "d", "o">>) \/ msg(<<"c", "o'", "m", "o", " ", "v", "a">>)
               \/ msg(<<"i", "n", "f", "o">>) \/ msg(<<"v", "e", "r", " ", "t", "a", "n", "d", "a">>)
               \/ msg(<<"m", "i", " ", "t", "u", "r", "n", "o">>)
       THEN "CHECK_STATUS"
       ELSE IF \/ msg(<<"p", "a", "g", "a", "r">>) \/ msg(<<"c", "u", "o", "t", "a">>)
               \/ msgThen(<<"l", "i", "n", "k">>, <<"p", "a", "g", "o">>) \/ msg(<<"q", "r">>)
       THEN "PAY_QUOTA"
       ELSE IF \/ msg(<<"c", "o", "m", "p", "r", "o", "b", "a", "n", "t", "e">>) \/ msg(<<"v", "o", "u", "c", "h", "e", "r">>)
               \/ msg(<<"r", "e", "c", "i", "b", "o">>) \/ msg(<<"p", "a", "g", "u", "e'">>)
       THEN "UPLOAD_PROOF"
       ELSE IF \/ msg(<<"a", "y", "u", "d", "a">>) \/ msg(<<"c", "o'", "m", "o", " ", "f", "u", "n", "c", "i", "o", "n", "a">>)
               \/ msg(<<"q", "u", "e'", " ", "p", "u", "e", "d", "o">>)
       THEN "GENERAL_HELP"
       ELSE IF \/ msgThen(<<"i", "n", "i", "c", "i", "a", "r">>, <<"t", "a", "n", "d", "a">>) \/ msg(<<"d", "e", "s", "p", "l", "e", "g", "a", "r">>)
               \/ msg(<<"a", "c", "t", "i", "v", "a", "r">>)
       THEN "START_TANDA"
       ELSE IF \/ resThen(<<"g", "r", "u", "p", "o">>, <<"c", "r", "e", "a", "d", "o">>)
               \/ resThen(<<"t", "a", "n", "d", "a">>, <<"c", "r", "e", "a", "d", "a">>)
       THEN "CREATE_GROUP"
       ELSE IF \E subject \in {<<"t", "e", "l", "e", "f", "o", "n", "o">>, <<"t", "e", "l", "e'", "f", "o", "n", "o">>,
                               <<"c", "o", "d", "i", "g", "o">>, <<"c", "o'", "d", "i", "g", "o">>},
                  done \in {<<"v", "e", "r", "i", "f", "i", "c", "a", "d", "o">>, <<"v", "a", "l", "i", "d", "a", "d", "o">>} :
                    resThen(subject, done)
       THEN "VERIFY_PHONE"
       ELSE IF \/ resThen(<<"l", "i", "n", "k">>, <<"p", "a", "g", "o">>)
               \/ resThen(<<"q", "r">>, <<"g", "e", "n", "e", "r", "a", "d", "o">>)
               \/ res(<<"p", "a", "y", "m", "e", "n", "t">>)
       THEN "PAY_QUOTA"
       ELSE IF res(<<"v", "e", "r", "i", "f", "i", "c", "a", "d", "o">>) \/ res(<<"c", "o", "m", "p", "r", "o", "b", "a", "n", "t", "e">>)
       THEN "UPLOAD_PROOF"
       ELSE "UNKNOWN"

\* ------------------------------------------------------------------------
\* Inbound message handling (WhatsappService) up to the Router
\* ------------------------------------------------------------------------
\* message.from / the contact's wa_id
Sender == <<"+", "5", "9", "1">>

TextSi == <<"s", "i">>
TextAyuda == <<"a", "y", "u", "d", "a">>
OtpCode == <<"A", "B", "1", "2">>

\* message.group.id of a message sent in a WhatsApp group
GroupJid == <<"1", "2", "0", "@", "g", ".", "u", "s">>

\* a message of the given sender, in a group (group.id) or not (Absent)
MessageFrom(id, type, text, from, group) ==
    [id |-> id, type |-> type, from |-> from, text |-> text,
     group |-> group]

Message(id, type, text) == MessageFrom(id, type, text, Sender, Absent)

NoTurn ==
    [id |-> NoMessageId, type |-> "", from |-> <<>>, text |-> Absent,
     group |-> Absent,
     duplicate |-> FALSE, effects |-> <<>>, raised |-> FALSE,
     routeRaised |-> FALSE, delegationThrew |-> FALSE,
     queryFailed |-> FALSE, sendFailed |-> FALSE,
     responseText |-> <<>>, agentUsed |-> "orchestrator",
     finalAuthor |-> Absent, reported |-> FALSE, result |-> Absent]

\* what a handler did: the calls it made in order (effects), whether an
\* exception left it (raised), the verification_codes rows, where handling
\* goes on (next), the queries issued, whether an outbound send failed
Handled(effects, raised, rows, next, q, sendFailed) ==
    [effects |-> effects, raised |-> raised, rows |-> rows, next |-> next,
     q |-> q, sendFailed |-> sendFailed]

handleTextMessage(message, rows, failAt, sendFail) ==
    LET canonicalSender == message.from
        v == verifyFromMessage(canonicalSender, message.text[1], rows,
                               failAt)
        mark == markPhoneVerified(canonicalSender, v.q, failAt)
    IN IF message.text = Absent
       THEN Handled(<<>>, FALSE, rows, "done", 0, FALSE)
       ELSE IF v.raised
       THEN Handled(<<"verifyFromMessage">>, TRUE, v.rows, "done", v.q,
                    FALSE)
       ELSE IF v.ok
       THEN IF mark.raised
            THEN Handled(<<"verifyFromMessage", "markPhoneVerified">>,
                         TRUE, v.rows, "done", mark.q, FALSE)
            ELSE Handled(<<"verifyFromMessage", "markPhoneVerified",
                           "sendText">>,
                         sendFail, v.rows, "done", mark.q, sendFail)
       ELSE Handled(<<"verifyFromMessage", "route">>, FALSE, v.rows,
                    "routeGet", v.q, FALSE)

\* faulty variant: the message is marked read after its handler ran
dispatchMessageReadLast(message, rows, failAt, sendFail) ==
    LET h == IF message.type = "text" /\ message.text # Absent
             THEN handleTextMessage(message, rows, failAt, sendFail)
             ELSE Handled(<<>>, FALSE, rows, "done", 0, FALSE)
    IN [h EXCEPT !.effects = @ \o <<"markAsRead">>]

\* handleMessage once the message passed the gate: markAsRead (which
\* swallows its own failure), then the switch on the message type
dispatchMessage(message, rows, failAt, sendFail) ==
    LET h == IF message.type = "text" /\ message.text # Absent
             THEN handleTextMessage(message, rows, failAt, sendFail)
             ELSE Handled(<<>>, FALSE, rows, "done", 0, FALSE)
    IN [h EXCEPT !.effects = <<"markAsRead">> \o @]

\* faulty variant: the message is marked read before the gate is asked
handleMessageReadFirst(message, cache, t, rows, failAt, sendFail) ==
    LET d == isDuplicateMessage(cache, message.id, t)
    IN IF d.dup
       THEN [duplicate |-> TRUE, cache |-> d.cache]
            @@ Handled(<<"markAsRead">>, FALSE, rows, "done", 0, FALSE)
       ELSE [duplicate |-> FALSE, cache |-> d.cache]
            @@ dispatchMessage(message, rows, failAt, sendFail)

\* faulty variant: the id is recorded only when the handling did not raise
handleMessageRecordingLast(message, cache, t, rows, failAt, sendFail) ==
    LET d == isDuplicateMessage(cache, message.id, t)
        h == dispatchMessage(message, rows, failAt, sendFail)
    IN IF d.dup
       THEN [duplicate |-> TRUE, cache |-> d.cache]
            @@ Handled(<<>>, FALSE, rows, "done", 0, FALSE)
       ELSE [duplicate |-> FALSE,
             cache |-> IF h.raised THEN pruneProcessedMessages(cache, t)
                       ELSE d.cache]
            @@ h

handleMessage(message, cache, t, rows, failAt, sendFail) ==
    LET d == isDuplicateMessage(cache, message.id, t)
    IN IF d.dup
       THEN [duplicate |-> TRUE, cache |-> d.cache]
            @@ Handled(<<>>, FALSE, rows, "done", 0, FALSE)
       ELSE [duplicate |-> FALSE, cache |-> d.cache]
            @@ dispatchMessage(message, rows, failAt, sendFail)

\* ------------------------------------------------------------------------
\* Router (AdkOrchestratorService.route) and the reply
\* ------------------------------------------------------------------------
KeyUserPhone == <<"u", "s", "e", "r", ":", "p", "h", "o", "n", "e">>
KeyGroupId == <<"g", "r", "o", "u", "p", "I", "d">>

FallbackText ==
    <<"Ocurrio un error procesando tu mensaje. Por favor intenta de nuevo o escribe \"ayuda\" para ver las opciones disponibles.">>

normalizePhone(phone) == digitsOnly(phone)

RouteUserId == normalizePhone(turn.from)
RouteSessionId == DefaultSessionId(AppName, RouteUserId)

\* the state route gives a new session (groupId is undefined in a direct
\* chat)
RouteInitialState ==
    (KeyUserPhone :> turn.from)
    @@ (KeyGroupId :> IF turn.group = Absent THEN Undefined
                      ELSE turn.group[1])

RouteResult(intent, responseText, agentUsed, sessionState) ==
    [intent |-> intent, responseText |-> responseText,
     agentUsed |-> agentUsed, sessionState |-> sessionState]

\* faulty variant: the catch block answers with what the loop had collected
routeFallbackCollected(responseText, agentUsed) ==
    RouteResult("UNKNOWN", responseText, agentUsed, Absent)

\* the result of the catch block; the loop's responseText and agentUsed
\* are not used
routeFallback(responseText, agentUsed) ==
    RouteResult("UNKNOWN", FallbackText, "orchestrator", Absent)

\* faulty variant: the catch block of route rethrows
RouteRethrows == FALSE

RouteCatches == TRUE

\* the delegation (or the re-fetch after it) threw inside route's try
RouteCatch(t) ==
    IF RouteCatches
    THEN [t EXCEPT !.delegationThrew = TRUE,
                   !.result = Some(routeFallback(t.responseText,
                                                 t.agentUsed))]
    ELSE [t EXCEPT !.delegationThrew = TRUE, !.routeRaised = TRUE]

\* turn.finalAuthor is the author of the last final response, and
\* turn.reported says whether some event named an author other than the
\* user.
\* the events runner.runAsync yields (each one appended to the session by
\* the runner before it is yielded): author, isFinalResponse(event),
\* stringifyContent(event), the state delta of its actions
RunnerEvents ==
    {[author |-> "user", final |-> FALSE, text |-> <<>>,
      stateDelta |-> EmptyState],
     [author |-> "validator", final |-> TRUE,
      text |-> <<"L", "i", "s", "t", "o">>,
      stateDelta |-> (KeyA :> V2)],
     [author |-> "", final |-> TRUE, text |-> <<" ">>,
      stateDelta |-> (KeyA :> Undefined) @@ (KeyTempA :> V1)]}

\* an event of a sub-agent that is not a final response (a function call,
\* such as the transfer to another sub-agent)
TransferEvent ==
    [author |-> "game_master", final |-> FALSE, text |-> <<>>,
     stateDelta |-> EmptyState]

\* ------------------------------------------------------------------------
\* The messaging layer as a state machine: one inbound message is handled
\* at a time; its handler stops at the awaits of route.
\* ------------------------------------------------------------------------
\* the latest instant of Date.now()
MaxClockMs == 1800001

VerificationRows ==
    {Absent,
     Some([code |-> OtpCode, expired |-> FALSE, verified |-> FALSE]),
     Some([code |-> OtpCode, expired |-> TRUE, verified |-> FALSE])}

\* the requests of the specification with concurrent handlers
CallIds == {"r1", "r2"}

\* a request that has not arrived: pc is where its handler stands, id the
\* message id, passed whether the gate let it through, held the Session
\* the runner fetched for it, read what that Session held when it was
\* fetched, wrote the timestamp of the event of its delegation (0: none
\* yet) and updated whether the UPDATE of that event reached the row
NoCall ==
    [pc |-> "none", id |-> NoMessageId, passed |-> FALSE, held |-> NoRef,
     read |-> Absent, wrote |-> 0, updated |-> FALSE]

WaInit ==
    /\ sendAgentText \in BOOLEAN
    /\ processedMessageCache = [id \in MessageIds |-> Absent]
    /\ clockMs = 0
    /\ seenAt = [id \in MessageIds |-> Absent]
    /\ verificationCodes \in
          {[u \in UserIds |-> IF u = User1 THEN row ELSE Absent] :
              row \in VerificationRows}
    /\ pc = "idle"
    /\ turn = NoTurn
    /\ calls = [c \in CallIds |-> NoCall]

\* the messaging layer as configured by default, with no code issued
WaQuiet ==
    /\ WaInit
    /\ sendAgentText = FALSE
    /\ verificationCodes = [u \in UserIds |-> Absent]

\* the backend queries of a handler: which one fails (0: none)
QueryFailures == IF enabled THEN 0..3 ELSE {0}

\* seenAt[id] is the history of the gate for an id: the time of the latest
\* lookup the gate answered with false (at) and how many lookups it
\* answered so (n).
\* time passes. Only the gate reads the clock, and only when a message
\* arrives, so the clock is advanced between two messages.
Tick(dt) ==
    /\ pc = "idle"
    /\ clockMs + dt <= MaxClockMs
    /\ clockMs' = clockMs + dt
    /\ UNCHANGED <<calls, enabled, table, heap, fallbackSessions, now, held, ret,
                   folded, sendAgentText, processedMessageCache, seenAt,
                   verificationCodes, pc, turn>>

ReceiveMessage(message, failAt, sendFail) ==
    /\ pc = "idle"
    /\ \E h \in {handleMessage(message, processedMessageCache, clockMs,
                               verificationCodes, failAt, sendFail)} :
        /\ processedMessageCache' = h.cache
        /\ seenAt' =
              IF h.duplicate \/ message.id = NoMessageId THEN seenAt
              ELSE [seenAt EXCEPT ![message.id] =
                      Some([at |-> clockMs,
                            n |-> IF @ = Absent THEN 1 ELSE @[1].n + 1])]
        /\ verificationCodes' = h.rows
        /\ pc' = h.next
        /\ turn' = [NoTurn EXCEPT
                      !.id = message.id, !.type = message.type,
                      !.from = message.from, !.text = message.text,
                      !.group = message.group,
                      !.duplicate = h.duplicate, !.effects = h.effects,
                      !.raised = h.raised,
                      !.queryFailed = failAt \in 1..h.q,
                      !.sendFailed = h.sendFailed]
    /\ UNCHANGED <<calls, enabled, table, heap, fallbackSessions, now, held, ret,
                   folded, sendAgentText, clockMs>>

\* faulty variant: route creates a session for every message, whether or
\* not getSession returned one
RouteGetThenCreate(fail) ==
    /\ pc = "routeGet"
    /\ \E r \in {getSession(Store, AppName, RouteSessionId, NoCfg, fail)} :
        /\ Commit(r, r.ref)
        /\ pc' = IF r.raised THEN "reply" ELSE "routeCreate"
        /\ turn' = [turn EXCEPT !.queryFailed = @ \/ fail,
                                !.effects = @ \o <<"getSession">>,
                                !.routeRaised = r.raised]
    /\ UNCHANGED <<calls, enabled, now, ret, folded, sendAgentText,
                   processedMessageCache, clockMs, seenAt,
                   verificationCodes>>

\* route, line 116: the session of the sender. A raise here is outside
\* route's try and leaves route.
RouteGet(fail) ==
    /\ pc = "routeGet"
    /\ \E r \in {getSession(Store, AppName, RouteSessionId, NoCfg, fail)} :
        /\ Commit(r, r.ref)
        /\ pc' = IF r.raised THEN "reply"
                 ELSE IF r.ref = NoRef THEN "routeCreate" ELSE "runStart"
        /\ turn' = [turn EXCEPT !.queryFailed = @ \/ fail,
                                !.effects = @ \o <<"getSession">>,
                                !.routeRaised = r.raised]
    /\ UNCHANGED <<calls, enabled, now, ret, folded, sendAgentText,
                   processedMessageCache, clockMs, seenAt,
                   verificationCodes>>

\* route, lines 122-138: no session yet; a raise of createSession is
\* logged and route goes on
RouteCreate(fail) ==
    /\ pc = "routeCreate"
    /\ \E r \in {createSession(Store, AppName, RouteUserId,
                               Some(RouteSessionId), RouteInitialState,
                               fail, now)} :
        Commit(r, r.ref)
    /\ pc' = "runStart"
    /\ turn' = [turn EXCEPT !.queryFailed = @ \/ fail,
                            !.effects = @ \o <<"createSession">>]
    /\ UNCHANGED <<calls, enabled, now, ret, folded, sendAgentText,
                   processedMessageCache, clockMs, seenAt,
                   verificationCodes>>

\* runner.runAsync starts: it fetches the session and throws when there
\* is none
RunnerStart(fail) ==
    /\ pc = "runStart"
    /\ \E r \in {getSession(Store, AppName, RouteSessionId, NoCfg, fail)} :
        /\ Commit(r, r.ref)
        /\ pc' = IF r.raised \/ r.ref = NoRef THEN "reply" ELSE "running"
        /\ turn' = IF r.raised \/ r.ref = NoRef
                   THEN RouteCatch([turn EXCEPT
                                      !.queryFailed = @ \/ fail,
                                      !.effects = @ \o <<"runAsync">>])
                   ELSE [turn EXCEPT !.queryFailed = @ \/ fail,
                                     !.effects = @ \o <<"runAsync">>]
    /\ UNCHANGED <<calls, enabled, now, ret, folded, sendAgentText,
                   processedMessageCache, clockMs, seenAt,
                   verificationCodes>>

\* the runner appends an event to the session and yields it; the loop of
\* route keeps the last author other than the user and the final text
RunnerEmit(event, fail) ==
    /\ pc = "running"
    /\ now < MaxNow
    /\ now' = now + 1
    /\ \E r \in {appendEvent(Store, held,
                             [author |-> event.author,
                              timestamp |-> now + 1,
                              stateDelta |-> event.stateDelta],
                             fail, now + 1)} :
        Commit(r, held)
    /\ turn' = [turn EXCEPT
                  !.queryFailed = @ \/ fail,
                  !.agentUsed = IF event.author # "" /\ event.author # "user"
                                THEN event.author ELSE @,
                  !.responseText = IF event.final THEN event.text ELSE @,
                  !.finalAuthor = IF event.final THEN Some(event.author)
                                  ELSE @,
                  !.reported = @ \/ event.author \notin {"", "user"}]
    /\ UNCHANGED <<calls, enabled, ret, folded, sendAgentText,
                   processedMessageCache, clockMs, seenAt,
                   verificationCodes, pc>>

\* the delegation throws (model call, tool or agent failure)
RunnerThrow ==
    /\ pc = "running"
    /\ Commit(Store, NoRef)
    /\ pc' = "reply"
    /\ turn' = RouteCatch(turn)
    /\ UNCHANGED <<calls, enabled, now, ret, folded, sendAgentText,
                   processedMessageCache, clockMs, seenAt,
                   verificationCodes>>

\* faulty variant: the session is fetched again before the exchange is
\* classified
RunnerEndFetchFirst(fail) ==
    /\ pc = "running"
    /\ \E r \in {getSession(Store, AppName, RouteSessionId, NoCfg, fail)} :
        /\ Commit(r, NoRef)
        /\ turn' =
             IF r.raised
             THEN RouteCatch([turn EXCEPT
                                !.queryFailed = @ \/ fail,
                                !.effects = @ \o <<"getSession">>])
             ELSE [turn EXCEPT
                     !.queryFailed = @ \/ fail,
                     !.effects = @ \o <<"getSession", "detectIntent">>,
                     !.result =
                        Some(RouteResult(
                               detectIntent(IF turn.text = Absent THEN <<>>
                                            ELSE turn.text[1],
                                            turn.responseText),
                               turn.responseText,
                               turn.agentUsed,
                               IF r.ref = NoRef THEN Absent
                               ELSE Some(r.heap[r.ref][1].state)))]
    /\ pc' = "reply"
    /\ UNCHANGED <<calls, enabled, now, ret, folded, sendAgentText,
                   processedMessageCache, clockMs, seenAt,
                   verificationCodes>>

\* the delegation ends: route classifies the exchange (line 163), then
\* fetches the session again (line 164) and returns
RunnerEnd(fail) ==
    /\ pc = "running"
    /\ \E r \in {getSession(Store, AppName, RouteSessionId, NoCfg, fail)} :
        /\ Commit(r, NoRef)
        /\ turn' =
             IF r.raised
             THEN RouteCatch([turn EXCEPT
                                !.queryFailed = @ \/ fail,
                                !.effects = @ \o <<"detectIntent",
                                                    "getSession">>])
             ELSE [turn EXCEPT
                     !.queryFailed = @ \/ fail,
                     !.effects = @ \o <<"detectIntent", "getSession">>,
                     !.result =
                        Some(RouteResult(
                               detectIntent(IF turn.text = Absent THEN <<>>
                                            ELSE turn.text[1],
                                            turn.responseText),
                               turn.responseText,
                               turn.agentUsed,
                               IF r.ref = NoRef THEN Absent
                               ELSE Some(r.heap[r.ref][1].state)))]
    /\ pc' = "reply"
    /\ UNCHANGED <<calls, enabled, now, ret, folded, sendAgentText,
                   processedMessageCache, clockMs, seenAt,
                   verificationCodes>>

\* handleWithAdkOrchestrator after route: the agent's text is sent when
\* ADK_SEND_AGENT_TEXT is set and the text is not blank; a raise of route
\* or of that send is answered with an apology, whose own failure leaves
\* the handler
Reply(sendFail, apologyFail) ==
    /\ pc = "reply"
    /\ pc' = "done"
    /\ turn' =
         IF turn.routeRaised
         THEN [turn EXCEPT !.effects = @ \o <<"sendText">>,
                           !.sendFailed = apologyFail,
                           !.raised = apologyFail]
         ELSE IF sendAgentText /\ trim(turn.result[1].responseText) # <<>>
         THEN IF sendFail
              THEN [turn EXCEPT !.effects = @ \o <<"sendText", "sendText">>,
                                !.sendFailed = TRUE,
                                !.raised = apologyFail]
              ELSE [turn EXCEPT !.effects = @ \o <<"sendText">>]
         ELSE turn
    /\ UNCHANGED <<calls, enabled, table, heap, fallbackSessions, now, held, ret,
                   folded, sendAgentText, processedMessageCache, clockMs,
                   seenAt, verificationCodes>>

\* processIncomingMessage returns or rethrows, and receiveWebhook answers
\* the request ({status: 'success'}, or {status: 'error'} after a raise);
\* nothing of the handled message is kept but the entry of the gate
Respond ==
    /\ pc = "done"
    /\ pc' = "idle"
    /\ turn' = NoTurn
    /\ UNCHANGED <<calls, enabled, table, heap, fallbackSessions, now, held, ret,
                   folded, sendAgentText, processedMessageCache, clockMs,
                   seenAt, verificationCodes>>

\* ------------------------------------------------------------------------
\* Two webhook requests of one sender handled concurrently by one process.
\* A handler runs without interruption from one await to the next: the
\* steps below are the stretches between the awaits of handleMessage and
\* route, and the two handlers interleave at them.
\* ------------------------------------------------------------------------
Other(c) == CHOOSE d \in CallIds : d # c

CallSessionId == DefaultSessionId(AppName, normalizePhone(Sender))

\* the state route gives a new session in a direct chat
CallInitialState == (KeyUserPhone :> Sender) @@ (KeyGroupId :> Undefined)

\* the one event the delegation of a request appends
CallEvent(c, t) ==
    [author |-> IF c = "r1" THEN "validator" ELSE "game_master",
     timestamp |-> t,
     stateDelta |-> IF c = "r1" THEN KeyA :> V2 ELSE KeyB :> V1]

\* the handler of request c took the store to r, holds ref and stands as
\* in next
CallCommit(c, r, ref, next) ==
    \E roots \in {Roots(r.cache, <<ref, calls[Other(c)].held>>)} :
        /\ table' = r.table
        /\ fallbackSessions' =
                [sid \in SessionIds |-> Rename(roots, r.cache[sid])]
        /\ heap' = Collect(r.heap, roots)
        /\ calls' = [x \in CallIds |->
                       IF x = c
                       THEN [next EXCEPT !.held = Rename(roots, ref)]
                       ELSE [calls[x] EXCEPT !.held = Rename(roots, @)]]

\* faulty variant: the gate looks the id up and leaves recording it until
\* markAsRead has returned
GateRecordingLater(c, id) ==
    /\ calls[c].pc = "none"
    /\ \E d \in {isDuplicateMessage(processedMessageCache, id, clockMs)} :
        /\ processedMessageCache' =
              pruneProcessedMessages(processedMessageCache, clockMs)
        /\ calls' = [calls EXCEPT
                       ![c] = [@ EXCEPT
                                 !.pc = IF d.dup THEN "done"
                                        ELSE "markAsRead",
                                 !.id = id, !.passed = ~d.dup]]
    /\ UNCHANGED <<enabled, table, heap, fallbackSessions, now, held, ret,
                   folded, sendAgentText, clockMs, seenAt,
                   verificationCodes, pc, turn>>

\* a request arrives: receiveWebhook, processIncomingMessage and
\* handleMessage run up to the first await, which is markAsRead (line
\* 848); isDuplicateMessage (lookup and insert) lies before it
Gate(c, id) ==
    /\ calls[c].pc = "none"
    /\ \E d \in {isDuplicateMessage(processedMessageCache, id, clockMs)} :
        /\ processedMessageCache' = d.cache
        /\ seenAt' =
              IF d.dup THEN seenAt
              ELSE [seenAt EXCEPT ![id] =
                      Some([at |-> clockMs,
                            n |-> IF @ = Absent THEN 1 ELSE @[1].n + 1])]
        /\ calls' = [calls EXCEPT
                       ![c] = [@ EXCEPT
                                 !.pc = IF d.dup THEN "done"
                                        ELSE "markAsRead",
                                 !.id = id, !.passed = ~d.dup]]
    /\ UNCHANGED <<enabled, table, heap, fallbackSessions, now, held, ret,
                   folded, sendAgentText, clockMs, verificationCodes, pc,
                   turn>>

\* markAsRead returned; the text holds no code, so the handler goes on to
\* route and its first getSession
MarkRead(c) ==
    /\ calls[c].pc = "markAsRead"
    /\ calls' = [calls EXCEPT ![c] = [@ EXCEPT !.pc = "routeGet"]]
    /\ UNCHANGED <<enabled, table, heap, fallbackSessions, now, held, ret,
                   folded, sendAgentText, processedMessageCache, clockMs,
                   seenAt, verificationCodes, pc, turn>>

\* route, line 116
CallGet(c, fail) ==
    /\ calls[c].pc = "routeGet"
    /\ \E r \in {getSession(Store, AppName, CallSessionId, NoCfg, fail)} :
        CallCommit(c, r, NoRef,
                   [calls[c] EXCEPT
                      !.pc = IF r.ref = NoRef THEN "routeCreate"
                             ELSE "runStart"])
    /\ UNCHANGED <<enabled, now, held, ret, folded, sendAgentText,
                   processedMessageCache, clockMs, seenAt,
                   verificationCodes, pc, turn>>

\* route, lines 122-138
CallCreate(c, fail) ==
    /\ calls[c].pc = "routeCreate"
    /\ \E r \in {createSession(Store, AppName, normalizePhone(Sender),
                               Some(CallSessionId), CallInitialState, fail,
                               now)} :
        CallCommit(c, r, NoRef, [calls[c] EXCEPT !.pc = "runStart"])
    /\ UNCHANGED <<enabled, now, held, ret, folded, sendAgentText,
                   processedMessageCache, clockMs, seenAt,
                   verificationCodes, pc, turn>>

\* runner.runAsync fetches the session it will append to; with none it
\* throws and route returns the fallback
CallRunStart(c, fail) ==
    /\ calls[c].pc = "runStart"
    /\ \E r \in {getSession(Store, AppName, CallSessionId, NoCfg, fail)} :
        CallCommit(c, r, r.ref,
                   IF r.ref = NoRef
                   THEN [calls[c] EXCEPT !.pc = "done"]
                   ELSE [calls[c] EXCEPT
                           !.pc = "running",
                           !.read =
                              Some([source |-> r.source,
                                    events |-> r.heap[r.ref][1].events,
                                    state |-> r.heap[r.ref][1].state])])
    /\ UNCHANGED <<enabled, now, held, ret, folded, sendAgentText,
                   processedMessageCache, clockMs, seenAt,
                   verificationCodes, pc, turn>>

\* the runner appends the event of the delegation to the Session it holds
CallEmit(c, fail) ==
    /\ calls[c].pc = "running"
    /\ now < MaxNow
    /\ now' = now + 1
    /\ \E r \in {appendEvent(Store, calls[c].held, CallEvent(c, now + 1),
                             fail, now + 1)} :
        CallCommit(c, r, calls[c].held,
                   [calls[c] EXCEPT
                      !.pc = "ending",
                      !.wrote = now + 1,
                      !.updated = /\ enabled
                                  /\ ~fail
                                  /\ table[CallSessionId] # Absent])
    /\ UNCHANGED <<enabled, held, ret, folded, sendAgentText,
                   processedMessageCache, clockMs, seenAt,
                   verificationCodes, pc, turn>>

\* route, lines 163-175: the session is fetched again and route returns
CallEnd(c, fail) ==
    /\ calls[c].pc = "ending"
    /\ \E r \in {getSession(Store, AppName, CallSessionId, NoCfg, fail)} :
        CallCommit(c, r, NoRef, [calls[c] EXCEPT !.pc = "done"])
    /\ UNCHANGED <<enabled, now, held, ret, folded, sendAgentText,
                   processedMessageCache, clockMs, seenAt,
                   verificationCodes, pc, turn>>

\* ------------------------------------------------------------------------
\* The intent classifier on its own: route's call of detectIntent (line
\* 163) for a user text and the final response text of the delegation
\* ------------------------------------------------------------------------
\* the intents of the user-text rules, in the order of lines 240-266
UserRuleOrder ==
    <<"VERIFY_PHONE", "CREATE_GROUP", "ADD_PARTICIPANT",
      "CONFIGURE_TANDA", "CHECK_STATUS", "PAY_QUOTA",
      "UPLOAD_PROOF", "GENERAL_HELP", "START_TANDA">>

\* for each of these rules, texts that its pattern matches
RulePhrases ==
    <<{<<"~", "*">>,
       <<"o", "t", "p">>,
       <<"c", "o", "d", "i", "g", "o">>,
       <<"c", "o'", "d", "i", "g", "o">>,
       <<"p", "i", "n">>},
      {<<"c", "r", "e", "a", "r">>,
       <<"n", "u", "e", "v", "a", " ", "t", "a", "n", "d", "a">>,
       <<"i", "n", "i", "c", "i", "a", "r", " ", "g", "r", "u", "p", "o">>,
       <<"a", "r", "m", "a", "r">>},
      {<<"a", "g", "r", "e", "g", "a", "r">>,
       <<"i", "n", "v", "i", "t", "a", "r">>,
       <<"a", "n~", "a", "d", "i", "r">>,
       <<"i", "n", "c", "l", "u", "i", "r">>},
      {<<"c", "o", "n", "f", "i", "g", "u", "r", "a", "r">>,
       <<"c", "a", "m", "b", "i", "a", "r">>,
       <<"m", "o", "d", "i", "f", "i", "c", "a", "r">>},
      {<<"e", "s", "t", "a", "d", "o">>,
       <<"c", "o'", "m", "o", " ", "v", "a">>,
       <<"i", "n", "f", "o">>,
       <<"v", "e", "r", " ", "t", "a", "n", "d", "a">>,
       <<"m", "i", " ", "t", "u", "r", "n", "o">>},
      {<<"p", "a", "g", "a", "r">>,
       <<"c", "u", "o", "t", "a">>,
       <<"l", "i", "n", "k", " ", "d", "e", " ", "p", "a", "g", "o">>,
       <<"q", "r">>},
      {<<"c", "o", "m", "p", "r", "o", "b", "a", "n", "t", "e">>,
       <<"v", "o", "u", "c", "h", "e", "r">>,
       <<"r", "e", "c", "i", "b", "o">>,
       <<"p", "a", "g", "u", "e'">>},
      {<<"a", "y", "u", "d", "a">>,
       <<"c", "o'", "m", "o", " ", "f", "u", "n", "c", "i", "o", "n", "a">>,
       <<"q", "u", "e'", " ", "p", "u", "e", "d", "o">>},
      {<<"i", "n", "i", "c", "i", "a", "r", " ", "l", "a", " ", "t", "a",
         "n", "d", "a">>,
       <<"d", "e", "s", "p", "l", "e", "g", "a", "r">>,
       <<"a", "c", "t", "i", "v", "a", "r">>}>>

\* a text with the words of two rules, those of rule j first
TwoRuleTexts(i, j) ==
    {b \o <<" ">> \o a : a \in RulePhrases[i], b \in RulePhrases[j]}

RulePairs ==
    {p \in (1..Len(UserRuleOrder)) \X (1..Len(UserRuleOrder)) : p[1] # p[2]}

KeywordTexts ==
    UNION {RulePhrases[i] : i \in 1..Len(UserRuleOrder)}
    \cup UNION {TwoRuleTexts(p[1], p[2]) : p \in RulePairs}

\* tanda:<action>:<id>, the id of a row of an interactive list (line 346
\* of group-messaging.service.ts builds it from the group's id)
TandaActions ==
    <<<<"c", "o", "n", "f", "i", "g", "u", "r", "e">>,
      <<"s", "t", "a", "t", "u", "s">>,
      <<"a", "d", "d", "_", "p", "a", "r", "t", "i", "c", "i", "p", "a",
        "n", "t">>,
      <<"s", "t", "a", "r", "t">>>>

TandaIntents ==
    <<"CONFIGURE_TANDA", "CHECK_STATUS", "ADD_PARTICIPANT", "START_TANDA">>

NumericIds == {<<"4", "2">>, <<"7">>}

\* an id that does not begin with a digit, as a UUID may
OtherIds == {<<"a", "1", "f">>}

TandaToken(action, id) ==
    <<"t", "a", "n", "d", "a", ":">> \o action \o <<":">> \o id

TandaTokens(ids) ==
    {TandaToken(TandaActions[a], id) : a \in 1..Len(TandaActions), id \in ids}

InviteTokens ==
    {<<"i", "n", "v", "i", "t", "e", "_", "a", "c", "c", "e", "p", "t",
       ":", "A", "B", "1", "2">>,
     <<"I", "n", "v", "i", "t", "e", "_", "D", "e", "c", "l", "i", "n",
       "e", ":", "A", "B", "1", "2">>}

\* texts that no structured-token rule and no user-text rule matches
PlainTexts == {<<>>, <<"s", "i">>, <<"H", "o", "l", "a">>}

\* final response texts, with the intent the response-text rules (lines
\* 268-283) give each
ResponseSamples ==
    {[text |-> <<>>, intent |-> "UNKNOWN"],
     [text |-> <<"L", "i", "s", "t", "o">>, intent |-> "UNKNOWN"],
     [text |-> <<"T", "u", " ", "g", "r", "u", "p", "o", " ", "f", "u", "e",
                " ", "c", "r", "e", "a", "d", "o">>,
      intent |-> "CREATE_GROUP"],
     [text |-> <<"T", "u", " ", "t", "e", "l", "e'", "f", "o", "n", "o",
                " ", "f", "u", "e", " ", "v", "e", "r", "i", "f", "i", "c",
                "a", "d", "o">>,
      intent |-> "VERIFY_PHONE"],
     [text |-> <<"A", "q", "u", "i'", " ", "e", "s", "t", "a'", " ", "t",
                "u", " ", "l", "i", "n", "k", " ", "d", "e", " ", "p", "a",
                "g", "o">>,
      intent |-> "PAY_QUOTA"],
     [text |-> <<"C", "o", "m", "p", "r", "o", "b", "a", "n", "t", "e", " ",
                "r", "e", "c", "i", "b", "i", "d", "o">>,
      intent |-> "UPLOAD_PROOF"]}

Responses == {s.text : s \in ResponseSamples}

IntentTexts ==
    KeywordTexts \cup TandaTokens(NumericIds \cup OtherIds)
    \cup InviteTokens \cup PlainTexts

Classify(userMessage, agentResponse) ==
    /\ pc = "idle"
    /\ pc' = "done"
    /\ turn' = [NoTurn EXCEPT
                  !.type = "text", !.from = Sender,
                  !.text = Some(userMessage),
                  !.effects = <<"route">>,
                  !.responseText = agentResponse,
                  !.result =
                     Some(RouteResult(detectIntent(userMessage,
                                                   agentResponse),
                                      agentResponse, "orchestrator",
                                      Absent))]
    /\ UNCHANGED <<calls, enabled, table, heap, fallbackSessions, now, held, ret,
                   folded, sendAgentText, processedMessageCache, clockMs,
                   seenAt, verificationCodes>>

IntentNext ==
    \/ \E t \in IntentTexts, r \in Responses : Classify(t, r)
    \/ Respond

\* ------------------------------------------------------------------------
\* Specifications
\* ------------------------------------------------------------------------
\* the Session Store under an arbitrary caller, the messaging layer idle
QuietInit == StoreInit /\ WaQuiet

SpecStore == QuietInit /\ [][StoreNext]_vars

SpecStoreLegacy == QuietInit /\ [][LegacyNext]_vars

\* the gate alone: messages that need no handler beyond the gate and
\* markAsRead, arriving at any time
Ticks ==
    {processedMessageTtlMs \div 2, processedMessageTtlMs,
     processedMessageTtlMs + 1}

Reactions ==
    {Message(id, "reaction", Absent) : id \in MessageIds \cup {NoMessageId}}

DedupNext ==
    \/ \E dt \in Ticks : Tick(dt)
    \/ \E m \in Reactions : ReceiveMessage(m, 0, FALSE)
    \/ Respond

DedupInit == StoreInit /\ enabled /\ WaQuiet

SpecDedup == DedupInit /\ [][DedupNext]_vars

\* text messages through the gate, the OTP check, the Router and the reply
Messages ==
    {Message(id, "text", Some(body)) :
        id \in MessageIds, body \in {TextSi, TextAyuda, OtpCode}}
    \cup {Message("wamid.1", "text", Absent),
          Message("wamid.2", "reaction", Absent)}

MessagingNext ==
    \/ \E m \in Messages, failAt \in QueryFailures, sendFail \in BOOLEAN :
          ReceiveMessage(m, failAt, sendFail)
    \/ \E f \in Fails : RouteGet(f)
    \/ \E f \in Fails : RouteCreate(f)
    \/ \E f \in Fails : RunnerStart(f)
    \/ \E e \in RunnerEvents, f \in Fails : RunnerEmit(e, f)
    \/ RunnerThrow
    \/ \E f \in Fails : RunnerEnd(f)
    \/ \E sendFail \in BOOLEAN, apologyFail \in BOOLEAN :
          Reply(sendFail, apologyFail)
    \/ Respond

MessagingInit == StoreInit /\ WaInit

SpecMessaging == MessagingInit /\ [][MessagingNext]_vars

\* the Router for one user who writes from two forms of the same number,
\* directly or in a group; no verification code is pending
Senders == {Sender, digitsOnly(Sender)}

RoutedMessages ==
    {MessageFrom(id, "text", Some(TextSi), from, group) :
        id \in MessageIds, from \in Senders,
        group \in {Absent, Some(GroupJid)}}

RoutingNext ==
    \/ \E m \in RoutedMessages : ReceiveMessage(m, 0, FALSE)
    \/ \E f \in Fails : RouteGet(f)
    \/ \E f \in Fails : RouteCreate(f)
    \/ \E f \in Fails : RunnerStart(f)
    \/ \E e \in RunnerEvents \cup {TransferEvent}, f \in Fails :
          RunnerEmit(e, f)
    \/ RunnerThrow
    \/ \E f \in Fails : RunnerEnd(f)
    \/ Reply(FALSE, FALSE)
    \/ Respond

SpecRouting == QuietInit /\ [][RoutingNext]_vars

\* the classifier applied to user texts and response texts
SpecIntent == QuietInit /\ [][IntentNext]_vars

\* the Session Store under callers that use the sessions of two users
IsolationNext ==
    \/ \E u \in UserIds, f \in Fails :
            CreateSession(AppName, u, Absent, KeyB :> V1, f)
            /\ UNCHANGED waVars
    \/ \E sid \in SessionIds, f \in Fails :
            GetSession(AppName, sid, NoCfg, f) /\ UNCHANGED waVars
    \/ \E sid \in SessionIds, f \in Fails :
            DeleteSession(sid, f) /\ UNCHANGED waVars
    \/ \E f \in Fails :
            AppendEvent("agent", KeyA :> V2, f) /\ UNCHANGED waVars

SpecIsolation == QuietInit /\ [][IsolationNext]_vars

\* two requests of one sender, with the same message id or with two
ConcurrentNext ==
    \/ \E c \in CallIds, id \in MessageIds : Gate(c, id)
    \/ \E c \in CallIds : MarkRead(c)
    \/ \E c \in CallIds, f \in Fails : CallGet(c, f)
    \/ \E c \in CallIds, f \in Fails : CallCreate(c, f)
    \/ \E c \in CallIds, f \in Fails : CallRunStart(c, f)
    \/ \E c \in CallIds, f \in Fails : CallEmit(c, f)
    \/ \E c \in CallIds, f \in Fails : CallEnd(c, f)

SpecConcurrent == QuietInit /\ [][ConcurrentNext]_vars

\* the Router across restarts of the process: the rows of the backend stay,
\* the in-memory maps of the session store and of the gate start empty
ProcessRestart ==
    /\ pc = "idle"
    /\ Restart
    /\ processedMessageCache' = [id \in MessageIds |-> Absent]
    /\ seenAt' = [id \in MessageIds |-> Absent]
    /\ UNCHANGED <<calls, sendAgentText, clockMs, verificationCodes, pc, turn>>

RestartMessages == {Message(id, "text", Some(TextSi)) : id \in MessageIds}

RestartNext ==
    \/ \E m \in RestartMessages : ReceiveMessage(m, 0, FALSE)
    \/ \E f \in Fails : RouteGet(f)
    \/ \E f \in Fails : RouteCreate(f)
    \/ \E f \in Fails : RunnerStart(f)
    \/ \E e \in RunnerEvents, f \in Fails : RunnerEmit(e, f)
    \/ RunnerThrow
    \/ \E f \in Fails : RunnerEnd(f)
    \/ Reply(FALSE, FALSE)
    \/ Respond
    \/ ProcessRestart

SpecRestart == QuietInit /\ [][RestartNext]_vars

\* ------------------------------------------------------------------------
\* Claims about the Session Store
\* ------------------------------------------------------------------------
StoreOf(r) == [heap |-> r.heap, cache |-> r.cache, table |-> r.table]

HasTempKey(state) == \E k \in DOMAIN state : StartsWith(k, TEMP_PREFIX)

\* the backend answers this call: it is configured and the query succeeds
Reachable(fail) == enabled /\ ~fail

\* C3. Fold law: the state returned by get equals the left fold, in append
\* order, of the non-ephemeral deltas of the events appended to the session
\* since its creation, whatever the backend did at each call. (States are
\* compared as JSON: a key whose value is undefined counts as absent.)
C3_FoldLaw ==
    (ret.op = "get" /\ held # NoRef /\ folded[heap[held][1].id] # Absent)
        => JsonState(heap[held][1].state)
             = JsonState(folded[heap[held][1].id][1].state)

\* C4. Defensive stripping: no session returned by create, get or
\* appendEvent has a state key with the prefix "temp:", also when such a
\* key was written directly into the row or the cached object.
C4_NoTempKeyReturned ==
    (ret.op \in {"create", "get", "appendEvent"} /\ held # NoRef)
        => ~HasTempKey(heap[held][1].state)

\* C7. No Session Store operation raises when its backend query fails or
\* the backend is disabled; the call then works on the cache alone: create
\* and appendEvent store the session in the cache, get answers from the
\* cache entry, list from the cached sessions, delete drops the entry, and
\* the table is left as it was.
C7_DegradesToCache ==
    /\ ~ret.raised
    /\ \A f \in Fails :
        LET degraded == ~Reachable(f) IN
        /\ \A c \in CreateArgs, st \in InitialStates :
            c.userId \in StoreUsers =>
            LET r == createSession(Store, c.appName, c.userId, c.sessionId,
                                   st, f, now)
            IN /\ ~r.raised
               /\ degraded => /\ r.ref # NoRef
                               /\ r.cache[r.sid] = r.ref
                               /\ r.table = table
        /\ \A g \in GetArgs, sid \in StoreSessionIds :
            LET r == getSession(Store, g.appName, sid, g.config, f)
            IN /\ ~r.raised
               /\ degraded =>
                    /\ r.source # "row"
                    /\ (r.ref = NoRef) = (fallbackSessions[sid] = NoRef)
                    /\ r.ref # NoRef =>
                          r.heap[r.ref][1].state
                            = heap[fallbackSessions[sid]][1].state
        /\ \A a \in AppNames, u \in StoreUsers :
            LET r == listSessions(Store, a, u, f)
            IN /\ ~r.raised
               /\ degraded =>
                    {x.id : x \in r.sessions}
                      = {sid \in SessionIds :
                            /\ fallbackSessions[sid] # NoRef
                            /\ heap[fallbackSessions[sid]][1].appName = a
                            /\ heap[fallbackSessions[sid]][1].userId = u}
        /\ \A sid \in StoreSessionIds :
            LET r == deleteSession(Store, sid, f)
            IN /\ ~r.raised
               /\ degraded => r.cache[sid] = NoRef /\ r.table = table
        /\ \A d \in Deltas :
            held # NoRef =>
            LET r == appendEvent(Store, held,
                                 [author |-> "agent", timestamp |-> now + 1,
                                  stateDelta |-> d], f, now + 1)
            IN /\ ~r.raised
               /\ degraded => /\ r.cache[heap[held][1].id] = held
                               /\ r.table = table

\* a call whose UPDATE failed has completed: the cached session is ahead
\* of its row
C7_Witness ==
    /\ ret.op = "appendEvent"
    /\ enabled
    /\ ~ret.raised
    /\ table[heap[held][1].id] # Absent
    /\ fallbackSessions[heap[held][1].id] = held
    /\ Len(table[heap[held][1].id][1].events) < Len(heap[held][1].events)

\* C9. get answers from the durable row whenever the backend is reachable
\* and holds the session's row, whatever the cache holds, and leaves the
\* returned session as the cache entry; otherwise it answers from the cache
\* entry, and with absence when there is none.
C9_RowIsSourceOfTruth ==
    \A g \in GetArgs, sid \in StoreSessionIds, f \in Fails :
        LET r == getSession(Store, g.appName, sid, g.config, f)
            rows == IF table[sid] # Absent
                       /\ table[sid][1].app_name = g.appName
                    THEN table[sid] ELSE Absent
            cached == fallbackSessions[sid]
        IN IF Reachable(f) /\ rows # Absent
           THEN /\ r.ref # NoRef
                /\ r.heap[r.ref][1].id = sid
                /\ r.heap[r.ref][1].state
                     = [k \in {x \in DOMAIN rows[1].state :
                                 ~StartsWith(x, TEMP_PREFIX)}
                          |-> rows[1].state[k]]
                /\ r.heap[r.ref][1].events
                     = applyGetConfigEvents(rows[1].events, g.config)
                /\ r.cache[sid] = r.ref
           ELSE IF cached # NoRef
           THEN /\ r.ref # NoRef
                /\ g.config = NoCfg => r.ref = cached
                /\ r.heap[r.ref][1]
                     = applyGetConfig(heap[cached][1], g.config)
           ELSE r.ref = NoRef

\* get has just answered from the row although the events appended to the
\* session (which the cache had) fold to another state
C9_Witness ==
    /\ ret.op = "get"
    /\ ret.source = "row"
    /\ held # NoRef
    /\ fallbackSessions[heap[held][1].id] = held
    /\ folded[heap[held][1].id] # Absent
    /\ JsonState(heap[held][1].state)
         # JsonState(folded[heap[held][1].id][1].state)

\* the event log a get without config returns (<<>> when it returns none)
EventsOfGet(st, sid, fail) ==
    LET r == getSession(st, AppName, sid, NoCfg, fail)
    IN IF r.ref = NoRef THEN <<>> ELSE r.heap[r.ref][1].events

\* C10. get with a config filters only the returned copy: the row and the
\* cache entry keep their events, so a following get without config returns
\* the same event log as it would have returned without the filtered get
\* in between (the row's log when either get reaches the row, else the
\* cached log).
C10_ConfigFiltersOnlyACopy ==
    \A sid \in StoreSessionIds, c \in Configs \ {NoCfg},
       f1 \in Fails, f2 \in Fails :
        LET r1 == getSession(Store, AppName, sid, c, f1)
        IN /\ r1.table = table
           /\ EventsOfGet(StoreOf(r1), sid, f2)
                = EventsOfGet(Store, sid, f1 /\ f2)

\* the log holds the events of `appended` at their positions
KeepsEvents(log, appended) ==
    /\ Len(log) >= Len(appended)
    /\ SubSeq(JsonEvents(log), 1, Len(appended)) = JsonEvents(appended)

\* C11. The event log is append-only: no create, get or appendEvent call
\* on a session that stays alive (created, not deleted, not created anew)
\* removes, changes or moves an event that the durable row or the cache
\* entry held before the call.
C11_EventLogAppendOnly ==
    [][\A sid \in StoreSessionIds :
        (folded[sid] # Absent /\ folded'[sid] # Absent) =>
            /\ (table[sid] # Absent /\ table'[sid] # Absent) =>
                  KeepsEvents(table'[sid][1].events, table[sid][1].events)
            /\ (fallbackSessions[sid] # NoRef
                    /\ fallbackSessions'[sid] # NoRef) =>
                  KeepsEvents(heap'[fallbackSessions'[sid]][1].events,
                              heap[fallbackSessions[sid]][1].events)]_vars

\* C12. create does not raise when its INSERT fails and always leaves the
\* returned session as the cache entry: a get for that id that cannot
\* reach the backend returns that session, whose state is the initial
\* state without the ephemeral keys and whose event log is empty.
C12_CreateMirrorsToCache ==
    /\ ret.op = "create" => (~ret.raised /\ held # NoRef)
    /\ \A c \in CreateArgs, st \in InitialStates, f \in Fails :
          c.userId \in StoreUsers =>
          LET r == createSession(Store, c.appName, c.userId, c.sessionId,
                                 st, f, now)
          IN /\ ~r.raised
             /\ r.ref # NoRef
             /\ r.cache[r.sid] = r.ref
             /\ r.heap[r.ref][1].id = r.sid
             /\ r.heap[r.ref][1].events = <<>>
             /\ r.heap[r.ref][1].state = stripTempState(st)
             /\ ~HasTempKey(r.heap[r.ref][1].state)
             /\ \A g \in GetArgs, f2 \in Fails :
                  ~Reachable(f2) =>
                  LET got == getSession(StoreOf(r), g.appName, r.sid,
                                        g.config, f2)
                  IN /\ ~got.raised
                     /\ got.ref # NoRef
                     /\ g.config = NoCfg => got.ref = r.ref
                     /\ got.heap[got.ref][1] = r.heap[r.ref][1]

\* a get has answered from the cache with the session of a create whose
\* INSERT failed (the backend is configured and holds no row), the state
\* given to create having had ephemeral keys
C12_Witness ==
    /\ ret.op = "get"
    /\ ret.source = "cache"
    /\ enabled
    /\ held # NoRef
    /\ table[heap[held][1].id] = Absent
    /\ heap[held][1].events = <<>>
    /\ heap[held][1].state = (KeyB :> V1) @@ (KeyTemp :> V1)

\* C13. appendEvent(session, event) gives every non-ephemeral key of the
\* event's delta the delta's value in session.state (over any earlier
\* value), keeps the other non-ephemeral keys as they were, leaves no
\* ephemeral key, puts the event at the end of session.events, sets
\* lastUpdateTime to event.timestamp, leaves that session object as the
\* cache entry and returns the event it was given.
C13_AppendEventApplies ==
    held # NoRef =>
    \A d \in Deltas, f \in Fails :
        LET before == heap[held][1]
            event == [author |-> "agent", timestamp |-> now + 1,
                      stateDelta |-> d]
            r == appendEvent(Store, held, event, f, now + 1)
            after == r.heap[held][1]
            plain(keys) == {k \in keys : ~StartsWith(k, TEMP_PREFIX)}
        IN /\ ~r.raised
           /\ r.event = event
           /\ DOMAIN after.state
                = plain(DOMAIN before.state \cup DOMAIN d)
           /\ \A k \in plain(DOMAIN d) : after.state[k] = d[k]
           /\ \A k \in plain(DOMAIN before.state) \ DOMAIN d :
                after.state[k] = before.state[k]
           /\ after.events = before.events \o <<event>>
           /\ after.lastUpdateTime = event.timestamp
           /\ after.id = before.id
           /\ r.cache[before.id] = held

\* the second appendEvent on a session has overwritten the value the
\* first one gave a key, and kept a key of the initial state
C13_Witness ==
    /\ ret.op = "appendEvent"
    /\ held # NoRef
    /\ fallbackSessions[heap[held][1].id] = held
    /\ Len(heap[held][1].events) = 2
    /\ heap[held][1].events[1].stateDelta[KeyA] = Undefined
    /\ heap[held][1].events[2].stateDelta = (KeyA :> V2)
    /\ heap[held][1].state[KeyA] = V2
    /\ KeyB \in DOMAIN heap[held][1].state
    /\ heap[held][1].state[KeyB] = V1
    /\ heap[held][1].lastUpdateTime = heap[held][1].events[2].timestamp

\* C14. delete is idempotent: it raises nothing whether the session is in
\* the table, in the cache, in both or in neither, and a second delete of
\* the same id leaves the table and the cache as the first one left them
\* (as one delete whose query reached the backend, when either did).
C14_DeleteIdempotent ==
    /\ ret.op = "delete" => ~ret.raised
    /\ \A sid \in StoreSessionIds, f1 \in Fails, f2 \in Fails :
          LET once == deleteSession(Store, sid, f1)
              twice == deleteSession(StoreOf(once), sid, f2)
              either == deleteSession(Store, sid, f1 /\ f2)
          IN /\ ~once.raised
             /\ ~twice.raised
             /\ once.cache[sid] = NoRef
             /\ Reachable(f1) => once.table[sid] = Absent
             /\ twice.cache = once.cache
             /\ twice.heap = once.heap
             /\ f1 = f2 => twice.table = once.table
             /\ twice.table = either.table

\* a delete on the reachable backend has completed for a session the
\* caller had obtained before; neither the table nor the cache holds it
C14_Witness ==
    /\ ret.op = "delete"
    /\ ~ret.raised
    /\ enabled
    /\ held # NoRef
    /\ table[heap[held][1].id] = Absent
    /\ fallbackSessions[heap[held][1].id] = NoRef

\* route was called for the message being handled
Routed == \E i \in 1..Len(turn.effects) : turn.effects[i] = "route"

\* C1. route never lets an exception escape: whatever the session store
\* did at get and create and whether or not the delegation threw, route
\* has returned a result once it is over.
C1_RouteNeverRaises ==
    /\ ~turn.routeRaised
    /\ (pc = "reply" \/ (pc = "done" /\ Routed)) => turn.result # Absent

\* route has returned although the INSERT of the new session failed with
\* the backend configured (the session lives in the cache alone) and the
\* delegation threw
C1_Witness ==
    /\ pc = "reply"
    /\ enabled
    /\ turn.queryFailed
    /\ turn.delegationThrew
    /\ turn.result # Absent
    /\ table[RouteSessionId] = Absent
    /\ fallbackSessions[RouteSessionId] # NoRef

\* C2. When the delegation throws, before or after it emitted events,
\* route returns intent UNKNOWN, handler "orchestrator", the non-empty
\* fallback text and no sessionState; nothing the loop had collected is
\* returned.
C2_DelegationFailureFallback ==
    (turn.delegationThrew /\ pc \in {"reply", "done"}) =>
        /\ turn.result # Absent
        /\ turn.result[1].intent = "UNKNOWN"
        /\ turn.result[1].agentUsed = "orchestrator"
        /\ turn.result[1].responseText = FallbackText
        /\ trim(turn.result[1].responseText) # <<>>
        /\ turn.result[1].sessionState = Absent

\* the delegation threw after an agent other than the orchestrator had
\* given a final response
C2_Witness ==
    /\ pc = "reply"
    /\ turn.delegationThrew
    /\ turn.result # Absent
    /\ turn.responseText # <<>>
    /\ turn.agentUsed # "orchestrator"

\* C5. isDuplicateMessage answers false on the first call for an id and
\* true on every later call up to processedMessageTtlMs after the call
\* that answered false; later than that it answers false once more,
\* inserting the id again with the current time, and then true again.
C5_DuplicateWithinTtl ==
    /\ \A id \in MessageIds :
        LET r == isDuplicateMessage(processedMessageCache, id, clockMs)
            within == /\ seenAt[id] # Absent
                      /\ clockMs - seenAt[id][1].at <= processedMessageTtlMs
        IN /\ r.dup = within
           /\ ~r.dup => r.cache[id] = Some(clockMs)
           /\ r.dup => r.cache[id] = Some(seenAt[id][1].at)
    /\ (pc = "done" /\ turn.id # NoMessageId) =>
          /\ seenAt[turn.id] # Absent
          /\ clockMs - seenAt[turn.id][1].at <= processedMessageTtlMs
          /\ ~turn.duplicate => seenAt[turn.id][1].at = clockMs

\* a call has answered true after the id was inserted a second time
C5_Witness ==
    /\ pc = "done"
    /\ turn.id # NoMessageId
    /\ turn.duplicate
    /\ seenAt[turn.id][1].n = 2

\* C6. A duplicate inbound message is skipped silently: its handling ends
\* at the gate, with no markAsRead, no verification query, no call of the
\* Router (hence none of the session store) and no outbound send, and it
\* does not raise.
C6_DuplicateSilentlySkipped ==
    /\ turn.duplicate =>
          /\ pc = "done"
          /\ turn.effects = <<>>
          /\ turn.result = Absent
          /\ ~turn.raised
    /\ \A m \in Messages :
         (/\ pc = "idle"
          /\ isDuplicateMessage(processedMessageCache, m.id, clockMs).dup) =>
            \A failAt \in QueryFailures, sendFail \in BOOLEAN :
                LET h == handleMessage(m, processedMessageCache, clockMs,
                                       verificationCodes, failAt, sendFail)
                IN /\ h.duplicate
                   /\ h.effects = <<>>
                   /\ h.next = "done"
                   /\ ~h.raised
                   /\ h.rows = verificationCodes

\* the retry of a text message whose first delivery was routed and left a
\* session
C6_Witness ==
    /\ pc = "done"
    /\ turn.duplicate
    /\ turn.type = "text"
    /\ turn.text # Absent
    /\ fallbackSessions[DefaultSessionId(AppName, digitsOnly(turn.from))]
          # NoRef

\* C8. Degraded mode: a text message that passed the gate while the
\* backend is not configured, or while a backend query of its handling
\* failed, is still routed and its handling ends with a route result and
\* without a raise (unless an outbound send failed).
C8_DegradedTextIsRouted ==
    (/\ pc = "done"
     /\ ~turn.duplicate
     /\ turn.type = "text"
     /\ turn.text # Absent
     /\ ~enabled \/ turn.queryFailed
     /\ ~turn.sendFailed)
        => (Routed /\ turn.result # Absent /\ ~turn.raised)

\* ------------------------------------------------------------------------
\* Claims about the Router's session
\* ------------------------------------------------------------------------
\* route is at work on the message of turn
Routing == pc \in {"routeGet", "routeCreate", "runStart", "running"}

\* route has created a session for the message of turn
Created ==
    \E i \in 1..Len(turn.effects) : turn.effects[i] = "createSession"

C19_NewSessionSeedsCanonicalPhone ==
    /\ (pc = "runStart" /\ Created) =>
          /\ held # NoRef
          /\ heap[held][1].events = <<>>
          /\ KeyUserPhone \in DOMAIN heap[held][1].state
          /\ heap[held][1].state[KeyUserPhone] = normalizePhone(turn.from)
          /\ turn.group # Absent =>
                /\ KeyGroupId \in DOMAIN heap[held][1].state
                /\ heap[held][1].state[KeyGroupId] = turn.group[1]
    /\ (pc \in {"reply", "done"} /\ Created /\ ~turn.delegationThrew) =>
          /\ turn.result # Absent
          /\ turn.result[1].sessionState # Absent
          /\ KeyUserPhone \in DOMAIN turn.result[1].sessionState[1]
          /\ turn.result[1].sessionState[1][KeyUserPhone]
                = normalizePhone(turn.from)
          /\ turn.group # Absent =>
                /\ KeyGroupId \in DOMAIN turn.result[1].sessionState[1]
                /\ turn.result[1].sessionState[1][KeyGroupId]
                      = turn.group[1]

\* C20. When route returns after a delegation that did not throw, the
\* sessionState of its result is the state of the session as the
\* delegation left it: the state of the session object its events were
\* appended to (compared as JSON), which holds every non-ephemeral delta
\* of this delegation.
C20_SessionStateAfterDelegation ==
    [][(pc = "running" /\ pc' = "reply" /\ ~turn'.delegationThrew) =>
          /\ turn'.result # Absent
          /\ turn'.result[1].sessionState # Absent
          /\ JsonState(turn'.result[1].sessionState[1])
                = JsonState(heap[held][1].state)]_vars

\* ------------------------------------------------------------------------
\* Claims about the intent classifier
\* ------------------------------------------------------------------------
\* the smaller of two rule positions
Earlier(i, j) == IF i < j THEN i ELSE j

\* C15. Structured-token precedence: for each action among configure,
\* status, add_participant and start and for every id, the user text
\* tanda:<action>:<id> is classified as the intent of that action,
\* whatever the response text.
C15_StructuredTokenPrecedence ==
    \A a \in 1..Len(TandaActions), id \in NumericIds \cup OtherIds :
        (pc = "done" /\ turn.text = Some(TandaToken(TandaActions[a], id)))
            => turn.result[1].intent = TandaIntents[a]

\* C16. The user-text rules are tried in one order (verification, create,
\* add participant, configure, status, pay, upload proof, help, start) and
\* the first that matches decides: a text with the words of one rule gets
\* that rule's intent, a text with the words of two rules gets the intent
\* of the rule that is earlier in the order, wherever its words stand in
\* the text.
C16_FirstUserRuleWins ==
    (pc = "done" /\ turn.text # Absent) =>
        /\ \A i \in 1..Len(UserRuleOrder) :
              turn.text[1] \in RulePhrases[i]
                  => turn.result[1].intent = UserRuleOrder[i]
        /\ \A p \in RulePairs :
              turn.text[1] \in TwoRuleTexts(p[1], p[2])
                  => turn.result[1].intent
                       = UserRuleOrder[Earlier(p[1], p[2])]

\* a text that begins with words of the last rule (start) and goes on
\* with words of the first (verification) was classified, the response
\* text matching a response rule of a third intent
C16_Witness ==
    /\ pc = "done"
    /\ turn.text # Absent
    /\ turn.text[1] \in TwoRuleTexts(1, Len(UserRuleOrder))
    /\ turn.result[1].intent = "VERIFY_PHONE"
    /\ \E r \in ResponseSamples :
          r.text = turn.responseText /\ r.intent = "CREATE_GROUP"

\* C17. The response text decides the intent only when no structured
\* token rule and no user-text rule matches the user text: a user text
\* that such a rule matches gets the same intent, never UNKNOWN, with
\* every response text; a user text that none matches gets the intent of
\* the response-text rules, UNKNOWN when none of those matches.
C17_ResponseOnlyAsFallback ==
    (pc = "done" /\ turn.text # Absent) =>
        /\ turn.text[1] \in KeywordTexts \cup TandaTokens(NumericIds)
                              \cup InviteTokens
              => /\ turn.result[1].intent # "UNKNOWN"
                 /\ \A r \in Responses :
                       detectIntent(turn.text[1], r) = turn.result[1].intent
        /\ turn.text[1] \in PlainTexts \cup TandaTokens(OtherIds)
              => \E r \in ResponseSamples :
                    /\ r.text = turn.responseText
                    /\ turn.result[1].intent = r.intent

\* a user text that no rule matches was classified by the response text
C17_Witness ==
    /\ pc = "done"
    /\ turn.text # Absent
    /\ turn.text[1] \in PlainTexts
    /\ turn.text[1] # <<>>
    /\ turn.result[1].intent = "VERIFY_PHONE"

\* ------------------------------------------------------------------------
\* Claims about one route call
\* ------------------------------------------------------------------------
\* route returned from its try block
Succeeded ==
    /\ pc \in {"reply", "done"}
    /\ Routed
    /\ turn.result # Absent
    /\ ~turn.delegationThrew

CreateFailed ==
    /\ Created
    /\ enabled
    /\ table[RouteSessionId] = Absent

\* C23: when the creation of the session fails during route, the
\* delegation still finds the unsaved session (the runner's fetch returns
\* it and does not throw), and a delegation that ends gives the caller the
\* handler's response of this turn, not the error fallback
C23_CreateFailureStillDelegates ==
    CreateFailed =>
       /\ pc = "runStart" =>
             \A f \in Fails :
                LET r == getSession(Store, AppName, RouteSessionId, NoCfg, f)
                IN /\ ~r.raised
                   /\ r.ref # NoRef
                   /\ r.ref = fallbackSessions[RouteSessionId]
                   /\ r.heap[r.ref][1].id = RouteSessionId
                   /\ r.heap[r.ref][1].events = <<>>
       /\ pc = "running" => /\ held # NoRef
                            /\ held = fallbackSessions[RouteSessionId]
       /\ (pc \in {"reply", "done"} /\ ~turn.delegationThrew) =>
             /\ turn.result # Absent
             /\ turn.result[1].responseText = turn.responseText
             /\ turn.result[1].agentUsed = turn.agentUsed
             /\ turn.result[1] # routeFallback(turn.responseText,
                                               turn.agentUsed)

\* a route call whose createSession failed returned the handler's response
C23_Witness ==
    /\ CreateFailed
    /\ Succeeded
    /\ turn.result[1].responseText = <<"L", "i", "s", "t", "o">>
    /\ turn.result[1].agentUsed = "validator"

\* the steps of a route call in the order they were taken: what follows
\* the call of route in the log of the handler, the outbound sends left out
RouteSteps ==
    LET i == CHOOSE k \in 1..Len(turn.effects) : turn.effects[k] = "route"
    IN SelectSeq(SubSeq(turn.effects, i + 1, Len(turn.effects)),
                 LAMBDA e : e # "sendText")

\* the runs of a route call: the session is resolved (get, then create when
\* there was none), the delegation runs, and the exchange is classified
\* and the session fetched again in the given order unless the delegation
\* threw
RouteRuns(afterDelegation) ==
    {resolve \o <<"runAsync">> \o rest :
        resolve \in {<<"getSession">>, <<"getSession", "createSession">>},
        rest \in {<<>>, afterDelegation}}

\* C24 as claimed: a route call that returned went through get (and
\* create), the delegation, the re-fetch of the session and then the
\* classifier, in this order, or ended in the fallback after the delegation
\* threw
C24_FetchThenClassify ==
    (Routed /\ pc \in {"reply", "done"}) =>
       /\ turn.result # Absent
       /\ RouteSteps \in RouteRuns(<<"getSession", "detectIntent">>)
       /\ turn.delegationThrew <=> RouteSteps[Len(RouteSteps)] = "runAsync"

\* C24, amended: a route call that returned went through get (and create),
\* the delegation, the classifier and then the re-fetch of the session, in
\* this order, or ended in the fallback after the delegation threw
C24_ClassifyThenFetch ==
    (Routed /\ pc \in {"reply", "done"}) =>
       /\ turn.result # Absent
       /\ RouteSteps \in RouteRuns(<<"detectIntent", "getSession">>)
       /\ turn.delegationThrew <=> RouteSteps[Len(RouteSteps)] = "runAsync"
       /\ turn.delegationThrew =>
             turn.result[1] = routeFallback(turn.responseText,
                                            turn.agentUsed)

\* a route call that created the session, delegated, classified and
\* fetched the session again
C24_Witness ==
    /\ pc = "done"
    /\ Routed
    /\ RouteSteps = <<"getSession", "createSession", "runAsync",
                      "detectIntent", "getSession">>
    /\ turn.result[1].intent = "UNKNOWN"
    /\ turn.result[1].sessionState # Absent

\* ------------------------------------------------------------------------
\* Claims about the gate and the Router
\* ------------------------------------------------------------------------
\* C25: route is invoked only for a message that passed the gate (it was
\* not a duplicate and its id is recorded) and was marked read after that
\* and before route; a message the gate stopped is neither marked read nor
\* routed
C25_RouteAfterGateThenRead ==
    /\ Routed =>
          /\ ~turn.duplicate
          /\ turn.id # NoMessageId =>
                /\ processedMessageCache[turn.id] # Absent
                /\ seenAt[turn.id] # Absent
          /\ turn.effects[1] = "markAsRead"
          /\ \A i \in 1..Len(turn.effects) :
                turn.effects[i] = "route" => i > 1
    /\ turn.duplicate =>
          \A i \in 1..Len(turn.effects) :
              turn.effects[i] \notin {"markAsRead", "route"}

\* a message passed the gate, was marked read and then routed
C25_Witness ==
    /\ pc = "routeGet"
    /\ ~turn.duplicate
    /\ turn.effects = <<"markAsRead", "verifyFromMessage", "route">>
    /\ processedMessageCache[turn.id] = Some(clockMs)

\* C26: an entry of the gate keeps the time of the lookup that inserted it
\* (seenAt, the latest lookup the gate answered with false), whatever
\* duplicates were looked up since; a lookup up to one TTL after that time
\* is a duplicate and leaves the entry as it is, and a lookup later than
\* that finds the entry evicted
C26_EntryKeepsFirstSeenAt ==
    \A id \in MessageIds :
        processedMessageCache[id] # Absent =>
           /\ seenAt[id] # Absent
           /\ processedMessageCache[id] = Some(seenAt[id][1].at)
           /\ LET first == seenAt[id][1].at
                  expiry == first + processedMessageTtlMs
                  atExpiry == isDuplicateMessage(processedMessageCache, id,
                                                 expiry)
                  later == isDuplicateMessage(processedMessageCache, id,
                                              expiry + 1)
              IN /\ clockMs <= expiry =>
                       /\ atExpiry.dup
                       /\ atExpiry.cache[id] = Some(first)
                 /\ ~later.dup
                 /\ later.cache[id] = Some(expiry + 1)

\* a duplicate was looked up one TTL after the id was first seen, and the
\* entry still holds the time of the first lookup
C26_Witness ==
    /\ pc = "done"
    /\ turn.id # NoMessageId
    /\ turn.duplicate
    /\ seenAt[turn.id][1].n = 1
    /\ clockMs = seenAt[turn.id][1].at + processedMessageTtlMs
    /\ processedMessageCache[turn.id] = Some(seenAt[turn.id][1].at)

\* C28: the id of a message is in the gate from the moment its handling
\* starts, so the gate lets an id through once per TTL window at most; when
\* the handling raised, every retry of the message up to one TTL after its
\* first lookup is stopped at the gate as a duplicate, with no effect
C28_FailedHandlingNotRetried ==
    /\ (pc # "idle" /\ ~turn.duplicate /\ turn.id # NoMessageId) =>
          /\ processedMessageCache[turn.id] = Some(clockMs)
          /\ seenAt[turn.id] # Absent
          /\ seenAt[turn.id][1].at = clockMs
    /\ \A id \in MessageIds :
          (/\ seenAt[id] # Absent
           /\ clockMs - seenAt[id][1].at <= processedMessageTtlMs) =>
              seenAt[id][1].n = 1
    /\ (pc = "done" /\ turn.raised /\ ~turn.duplicate
          /\ turn.id # NoMessageId) =>
          \A m \in Messages,
             t \in {clockMs, seenAt[turn.id][1].at + processedMessageTtlMs},
             failAt \in QueryFailures, sendFail \in BOOLEAN :
               m.id = turn.id =>
                  LET h == handleMessage(m, processedMessageCache, t,
                                         verificationCodes, failAt, sendFail)
                  IN /\ h.duplicate
                     /\ h.effects = <<>>
                     /\ h.next = "done"
                     /\ h.rows = verificationCodes

\* the handling of a routed message raised (the reply and the apology
\* could not be sent) after its id was recorded
C28_Witness ==
    /\ pc = "done"
    /\ turn.raised
    /\ ~turn.duplicate
    /\ Routed
    /\ turn.sendFailed
    /\ processedMessageCache[turn.id] = Some(clockMs)

\* ------------------------------------------------------------------------
\* Claims about the Router across restarts
\* ------------------------------------------------------------------------
\* C29: route creates a session only when the backend has none for the
\* user, and the createSession of a route call leaves the events and the
\* state of an existing row as they are
C29_ExistingSessionNotOverwritten ==
    [][(pc = "routeCreate" /\ table[RouteSessionId] # Absent) =>
          /\ table'[RouteSessionId] # Absent
          /\ table'[RouteSessionId][1].events
                = table[RouteSessionId][1].events
          /\ table'[RouteSessionId][1].state
                = table[RouteSessionId][1].state]_vars

\* ------------------------------------------------------------------------
\* Claims about sessions of different ids
\* ------------------------------------------------------------------------
\* the call that took the store st to r left the row of sid, its cache
\* entry and the Session object the entry refers to as they were
Untouched(st, r, sid) ==
    /\ r.table[sid] = st.table[sid]
    /\ r.cache[sid] = st.cache[sid]
    /\ st.cache[sid] # NoRef => r.heap[st.cache[sid]] = st.heap[st.cache[sid]]

\* C30: createSession, getSession, appendEvent and deleteSession on one
\* session id leave the row and the cache entry of every other session id
\* unchanged, whether or not their backend query fails
C30_SessionsIsolated ==
    \A u \in UserIds, f \in Fails :
       LET target == DefaultSessionId(AppName, u)
       IN \A other \in SessionIds \ {target} :
            /\ \A st \in InitialStates :
                  Untouched(Store,
                            createSession(Store, AppName, u, Absent, st, f,
                                          now),
                            other)
            /\ \A config \in Configs :
                  Untouched(Store,
                            getSession(Store, AppName, target, config, f),
                            other)
            /\ Untouched(Store, deleteSession(Store, target, f), other)
            /\ (held # NoRef /\ heap[held][1].id = target) =>
                  \A d \in Deltas :
                     Untouched(Store,
                               appendEvent(Store, held,
                                           [author |-> "agent",
                                            timestamp |-> now + 1,
                                            stateDelta |-> d],
                                           f, now + 1),
                               other)

\* two sessions with an event each, in the table and in the cache, and an
\* event was just appended to one of them
C30_Witness ==
    /\ ret.op = "appendEvent"
    /\ held # NoRef
    /\ \A sid \in SessionIds :
          /\ table[sid] # Absent
          /\ Len(table[sid][1].events) = 1
          /\ fallbackSessions[sid] # NoRef
    /\ \E sid \in SessionIds : heap[held][1].id # sid

\* ------------------------------------------------------------------------
\* Claims about concurrent requests
\* ------------------------------------------------------------------------
\* both requests fetched the session from the row when it held the same
\* events and state, both appended their event, c before d, and the UPDATE
\* of d reached the row
BothReadThenWrote(c, d) ==
    /\ calls[c].read # Absent
    /\ calls[d].read = calls[c].read
    /\ calls[c].read[1].source = "row"
    /\ calls[c].wrote > 0
    /\ calls[d].wrote > calls[c].wrote
    /\ calls[d].updated

\* C22: when two concurrent route calls for one session both read the same
\* prior state and each appends its event, the stored session (the row and
\* the cached Session) holds the prior events and the event of the call
\* that appended last, with the state that call computed; the event and
\* the delta of the other call are in neither
C22_ConcurrentRoutesLoseUpdate ==
    \A c \in CallIds :
       LET d == Other(c)
           prior == calls[c].read[1]
           last == CallEvent(d, calls[d].wrote)
           lost == CallEvent(c, calls[c].wrote)
           row == table[CallSessionId][1]
           cached == heap[fallbackSessions[CallSessionId]][1]
       IN BothReadThenWrote(c, d) =>
            /\ table[CallSessionId] # Absent
            /\ row.events = JsonEvents(Append(prior.events, last))
            /\ row.state
                 = JsonState(stripTempState(ApplyDelta(prior.state,
                                                       last.stateDelta)))
            /\ \A i \in 1..Len(row.events) : row.events[i] # JsonEvent(lost)
            /\ fallbackSessions[CallSessionId] # NoRef
            /\ cached.events = Append(prior.events, last)
            /\ \A k \in DOMAIN lost.stateDelta :
                  k \in DOMAIN cached.state => k \in DOMAIN prior.state

\* both calls returned; each had appended its event to a Session fetched
\* from the same row
C22_Witness ==
    \E c \in CallIds :
       /\ BothReadThenWrote(c, Other(c))
       /\ calls[c].updated
       /\ calls[c].pc = "done"
       /\ calls[Other(c)].pc = "done"
       /\ calls[c].id # calls[Other(c)].id
       /\ Len(table[CallSessionId][1].events) = 1

\* C27: of two concurrent requests with the same message id, exactly one is
\* let through the gate, in every interleaving of their handlers; a request
\* that arrives alone is let through
C27_ExactlyOnePassesGate ==
    \A c \in CallIds :
       LET d == Other(c)
       IN calls[c].pc # "none" =>
            /\ (calls[d].pc # "none" /\ calls[d].id = calls[c].id) =>
                  calls[c].passed # calls[d].passed
            /\ (calls[d].pc = "none" \/ calls[d].id # calls[c].id) =>
                  calls[c].passed
            /\ processedMessageCache[calls[c].id] # Absent

\* the second request with the id arrived, and was stopped, while the
\* handler of the first was suspended in markAsRead
C27_Witness ==
    \E c \in CallIds :
       /\ calls[c].pc = "markAsRead"
       /\ calls[c].passed
       /\ calls[Other(c)].pc = "done"
       /\ ~calls[Other(c)].passed
       /\ calls[Other(c)].id = calls[c].id

====
